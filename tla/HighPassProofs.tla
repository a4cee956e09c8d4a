---------------------------- MODULE HighPassProofs ----------------------------
(***************************************************************************)
(* Proofs about HighPass, for every number of taps, all sizes of short and *)
(* float and any cutting of the streams into buffers: what the loop over   *)
(* the samples of a buffer computes, and that the outputs are the          *)
(* convolution of their own stream.                                        *)
(***************************************************************************)
EXTENDS HighPass, SequenceTheorems, WellFoundedInduction, TLAPS

(***************************************************************************)
(* The loop over the samples, in closed form.  Induction over the samples  *)
(* is by a least counterexample.                                           *)
(***************************************************************************)
\* A set of natural numbers that is not empty has a least element.
LEMMA LeastNat ==
  ASSUME NEW S, S \subseteq Nat, S # {}
  PROVE  \E x \in S : \A y \in S : x <= y
<1> DEFINE R == {ss \in Nat \X Nat : ss[1] < ss[2]}
<1>1. IsWellFoundedOn(R, Nat)
  BY NatLessThanWellFounded DEF OpToRel
<1>2. PICK x \in S : \A y \in S : ~(<<y, x>> \in R)
  <2> HIDE DEF R
  <2> QED
    BY <1>1, WFMin
<1>3. ASSUME NEW y \in S
      PROVE  x <= y
  <2>1. x \in Nat /\ y \in Nat /\ ~(<<y, x>> \in R)
    BY <1>2
  <2> QED
    BY <2>1
<1> QED
  BY <1>3

\* The taps that output k is taken over, and the line behind sample k.
TapsAt(line, data, k) == [j \in Taps |-> IF j < k THEN data[k - j] ELSE line[(j - k) + 1]]
LineAt(line, data, k) ==
  [j \in Taps |-> IF j = 0 THEN (IF k = 0 THEN line[0] ELSE data[k])
                  ELSE IF j <= k THEN data[(k - j) + 1] ELSE line[j - k]]
StateAt(line, data, k) ==
  [line |-> LineAt(line, data, k), out |-> [i \in 1 .. k |-> TapsAt(line, data, i)]]

\* One iteration of the loop, from what the one before has left.
After(before, sample) ==
  LET taps == [before.line EXCEPT ![0] = sample]
  IN [line |-> Shifted(taps), out |-> Append(before.out, taps)]

\* One sample more: the loop body takes the closed form for k - 1 samples to
\* the one for k.
LEMMA AfterStateAt ==
  ASSUME NEW line, DOMAIN line = Taps, NEW data, NEW k \in Nat, k > 0
  PROVE  After(StateAt(line, data, k - 1), data[k]) = StateAt(line, data, k)
<1> DEFINE before == StateAt(line, data, k - 1)
           taps == [before.line EXCEPT ![0] = data[k]]
<1>0. k - 1 \in Nat /\ COEF_LEN \in Nat /\ COEF_LEN > 0
  BY FilterAssumption
<1>1. before.line = LineAt(line, data, k - 1)
      /\ before.out = [i \in 1 .. k - 1 |-> TapsAt(line, data, i)]
  BY DEF StateAt
<1>2. taps = TapsAt(line, data, k)
  <2>1. taps = [j \in Taps |-> IF j = 0 THEN data[k] ELSE LineAt(line, data, k - 1)[j]]
    BY <1>1 DEF LineAt
  <2>2. ASSUME NEW j \in Taps
        PROVE  (IF j = 0 THEN data[k] ELSE LineAt(line, data, k - 1)[j]) =
                 IF j < k THEN data[k - j] ELSE line[(j - k) + 1]
    <3>1. j \in Nat
      BY DEF Taps
    <3>2. CASE j = 0
      BY <3>2
    <3>3. CASE j # 0
      <4>1. LineAt(line, data, k - 1)[j] =
              IF j <= k - 1 THEN data[((k - 1) - j) + 1] ELSE line[j - (k - 1)]
        BY <3>3 DEF LineAt
      <4>2. (j <= k - 1 <=> j < k) /\ ((k - 1) - j) + 1 = k - j /\ j - (k - 1) = (j - k) + 1
        BY <3>1
      <4> QED
        BY <3>3, <4>1, <4>2
    <3> QED
      BY <3>2, <3>3
  <2> QED
    BY <2>1, <2>2 DEF TapsAt
<1>3. Shifted(TapsAt(line, data, k)) = LineAt(line, data, k)
  <2>1. 0 \in Taps
    BY <1>0 DEF Taps
  <2>2. ASSUME NEW j \in Taps
        PROVE  (IF j = 0 THEN TapsAt(line, data, k)[0] ELSE TapsAt(line, data, k)[j - 1]) =
                 IF j = 0 THEN (IF k = 0 THEN line[0] ELSE data[k])
                 ELSE IF j <= k THEN data[(k - j) + 1] ELSE line[j - k]
    <3>1. j \in Nat
      BY DEF Taps
    <3>2. CASE j = 0
      <4>1. TapsAt(line, data, k)[0] = data[k - 0] /\ k - 0 = k
        BY <2>1 DEF TapsAt
      <4> QED
        BY <3>2, <4>1
    <3>3. CASE j # 0
      <4>1. j - 1 \in Taps
        BY <1>0, <3>1, <3>3 DEF Taps
      <4>2. TapsAt(line, data, k)[j - 1] =
              IF j - 1 < k THEN data[k - (j - 1)] ELSE line[((j - 1) - k) + 1]
        BY <4>1 DEF TapsAt
      <4>3. (j - 1 < k <=> j <= k) /\ k - (j - 1) = (k - j) + 1 /\ ((j - 1) - k) + 1 = j - k
        BY <3>1
      <4> QED
        BY <3>3, <4>2, <4>3
    <3> QED
      BY <3>2, <3>3
  <2> QED
    BY <2>2 DEF Shifted, LineAt
<1>4. Append(before.out, TapsAt(line, data, k)) = [i \in 1 .. k |-> TapsAt(line, data, i)]
  <2> DEFINE T(i) == TapsAt(line, data, i)
             o == [i \in 1 .. k - 1 |-> T(i)]
  <2> HIDE DEF T
  <2>1. o \in Seq({T(i) : i \in 1 .. k}) /\ Len(o) = k - 1
    BY <1>0
  <2>2. Append(o, T(k)) = [i \in 1 .. k |-> T(i)]
    BY <1>0, <2>1
  <2> QED
    BY <1>1, <2>2 DEF T
<1> QED
  BY <1>2, <1>3, <1>4 DEF After, StateAt

\* What the loop leaves after all samples of a buffer.
LEMMA FilteredClosed ==
  ASSUME NEW line, line = [j \in Taps |-> line[j]], NEW len \in Nat, NEW data, Len(data) = len
  PROVE  Filtered(line, data) = StateAt(line, data, len)
<1> DEFINE Is(g) == g = [i \in 0 .. len |->
                           IF i = 0 THEN [line |-> line, out |-> <<>>]
                           ELSE After(g[i - 1], data[i])]
           S(i) == StateAt(line, data, i)
           closed == [i \in 0 .. len |-> S(i)]
           after == CHOOSE g : Is(g)
<1>1. Filtered(line, data) = after[len]
  BY DEF Filtered, After
<1>2. S(0) = [line |-> line, out |-> <<>>]
  <2>1. LineAt(line, data, 0) = line
    <3>1. ASSUME NEW j \in Taps
          PROVE  LineAt(line, data, 0)[j] = line[j]
      <4>1. j \in Nat /\ j - 0 = j /\ (j <= 0 => j = 0)
        BY DEF Taps
      <4> QED
        BY <4>1 DEF LineAt
    <3> QED
      BY <3>1 DEF LineAt
  <2>2. [i \in 1 .. 0 |-> TapsAt(line, data, i)] = <<>>
    OBVIOUS
  <2> QED
    BY <2>1, <2>2 DEF StateAt
<1>3. \A i \in 0 .. len : i # 0 => i - 1 \in 0 .. len /\ After(S(i - 1), data[i]) = S(i)
  BY AfterStateAt
<1> HIDE DEF S
<1>4. Is(closed)
  <2>1. ASSUME NEW i \in 0 .. len
        PROVE  S(i) = IF i = 0 THEN [line |-> line, out |-> <<>>] ELSE After(closed[i - 1], data[i])
    BY <1>2, <1>3
  <2> QED
    BY <2>1
<1> HIDE DEF closed
<1>5. Is(after)
  <2> HIDE DEF Is
  <2> QED
    BY <1>4
<1> HIDE DEF after
<1>6. \A i \in 0 .. len : after[i] = IF i = 0 THEN [line |-> line, out |-> <<>>]
                                      ELSE After(after[i - 1], data[i])
  BY <1>5
<1>7. ASSUME after[len] # S(len)
      PROVE  FALSE
  <2> DEFINE Wrong == {i \in 0 .. len : after[i] # S(i)}
  <2>1. len \in Wrong /\ Wrong \subseteq Nat
    BY <1>7
  <2>2. PICK i \in Wrong : \A y \in Wrong : i <= y
    <3> HIDE DEF Wrong
    <3> QED
      BY <2>1, LeastNat
  <2>3. i # 0
    BY <1>2, <1>6
  <2>4. i - 1 \in 0 .. len /\ i - 1 \notin Wrong
    BY <2>2, <2>3
  <2>5. after[i - 1] = S(i - 1)
    BY <2>4
  <2> QED
    BY <1>3, <1>6, <2>3, <2>5
<1> QED
  BY <1>1, <1>7 DEF S

(***************************************************************************)
(* The inductive invariant.                                                *)
(***************************************************************************)
Shapes ==
  /\ stream \in Nat /\ received \in Nat
  /\ w = [j \in Taps |-> w[j]]
  /\ out = [i \in 1 .. received |-> out[i]]

\* Before the first initFilter the line is the memory it was allocated in.
Unbegun == stream = 0 => w = [j \in Taps |-> Memory(j)] /\ received = 0

\* Behind tap 0, which the next sample overwrites, the line holds the latest
\* samples of the stream, then what is left of the silence of initFilter, and on
\* new memory nothing but the memory behind it.
LineHolds ==
  stream > 0 => \A j \in Taps : j >= 1 =>
    /\ j <= received => w[j] = Sample(stream, (received - j) + 1)
    /\ j > received /\ j - received < ClearedTaps => w[j] = Silence
    /\ stream = 1 /\ j > received /\ j - received >= ClearedTaps => w[j] # Silence /\ w[j].stream = 0

HInv == Shapes /\ Unbegun /\ LineHolds /\ OutputIsConvolution

\* initFilter clears no more of the delay line than there is.
LEMMA ClearedTapsBound == ClearedTaps \in Nat /\ ClearedTaps <= COEF_LEN
<1> DEFINE S == SHORT_SIZE
           F == FLOAT_SIZE
           C == COEF_LEN
           q == (S * C) \div F
<1>1. S \in Nat /\ F \in Nat \ {0} /\ C \in Nat /\ S <= F
  BY FilterAssumption
<1>2. S * C \in Nat /\ S * C <= F * C
  <2>1. PICK d \in Nat : F = S + d
    BY <1>1
  <2>2. F * C = S * C + d * C /\ d * C \in Nat /\ S * C \in Nat
    BY <1>1, <2>1, Z3
  <2> QED
    BY <2>2
<1>3. q \in Nat /\ F * q <= S * C
  <2> DEFINE b == S * C
  <2>1. b \in Nat /\ q = b \div F
    BY <1>2
  <2> HIDE DEF b, q, F
  <2>2. q \in Nat /\ F * q <= b
    BY <1>1, <2>1, Z3
  <2> QED
    BY <2>2 DEF b
<1>4. q <= C
  <2>1. CASE q > C
    <3>1. PICK e \in Nat : q = C + 1 + e
      BY <1>1, <1>3, <2>1
    <3> HIDE DEF q, F
    <3>2. F * q = F * C + F + F * e /\ F * e \in Nat /\ F * C \in Nat
      BY <1>1, <3>1, Z3
    <3> QED
      BY <1>1, <1>2, <1>3, <3>2
  <2> QED
    BY <1>1, <1>3, <2>1
<1> QED
  BY <1>3, <1>4 DEF ClearedTaps, ClearedBytes

\* initFilter keeps the invariant.
LEMMA InitFilterPreserves ==
  ASSUME HInv, initFilter
  PROVE  HInv'
<1> USE DEF HInv
<1>1. stream' = stream + 1 /\ received' = 0 /\ out' = <<>> /\ w' = Cleared(w) /\ stream \in Nat
  BY DEF initFilter, Shapes
<1>2. Shapes'
  BY <1>1 DEF Shapes, Cleared
<1>3. Unbegun'
  BY <1>1 DEF Unbegun
<1>4. LineHolds'
  <2> SUFFICES ASSUME NEW j \in Taps, j >= 1
               PROVE  /\ j < ClearedTaps => w'[j] = Silence
                      /\ stream' = 1 /\ j >= ClearedTaps => w'[j] # Silence /\ w'[j].stream = 0
    <3>1. \A j \in Taps : j >= 1 => ~(j <= 0) /\ j - 0 = j
      BY DEF Taps
    <3> QED
      BY <1>1, <3>1 DEF LineHolds, Taps
  <2>1. w'[j] = IF j < ClearedTaps THEN Silence
                ELSE IF j * FLOAT_SIZE < ClearedBytes THEN Damaged(w[j]) ELSE w[j]
    BY <1>1 DEF Cleared
  <2>2. ASSUME stream' = 1, j >= ClearedTaps
        PROVE  w'[j] # Silence /\ w'[j].stream = 0
    <3>1. w[j] = Memory(j)
      BY <1>1, <2>2 DEF Unbegun
    <3>2. j \in Nat /\ ~(j < ClearedTaps)
      BY <2>2, ClearedTapsBound DEF Taps
    <3>3. Memory(j).n = j + 1 /\ Memory(j).stream = 0 /\ Silence.n = 0
      BY DEF Memory, Sample, Silence
    <3>4. Damaged(Memory(j)).n = j + 1 /\ Damaged(Memory(j)).stream = 0
      <4>1. Memory(j) # Silence
        BY <3>2, <3>3
      <4> QED
        BY <4>1 DEF Damaged, Memory, Sample
    <3>5. w'[j].n = j + 1 /\ w'[j].stream = 0
      BY <2>1, <3>1, <3>2, <3>3, <3>4
    <3> QED
      BY <3>2, <3>3, <3>5
  <2> QED
    BY <2>1, <2>2
<1>5. OutputIsConvolution'
  BY <1>1 DEF OutputIsConvolution
<1> QED
  BY <1>2, <1>3, <1>4, <1>5

\* What a call of filter does, by FilteredClosed.
LEMMA FilterStep ==
  ASSUME HInv, NEW len \in Nat, filter(len)
  PROVE  /\ stream > 0 /\ stream' = stream /\ received' = received + len
         /\ w' = [j \in Taps |-> IF j = 0 THEN w'[0]
                                 ELSE IF j <= len THEN Sample(stream, received + ((len - j) + 1))
                                 ELSE w[j - len]]
         /\ out' = [i \in 1 .. received + len |->
                      IF i <= received THEN out[i]
                      ELSE [j \in Taps |-> IF j < i - received THEN Sample(stream, i - j)
                                           ELSE w[(j - (i - received)) + 1]]]
<1> DEFINE data == [i \in 1 .. len |-> Sample(stream, received + i)]
           done == Filtered(w, data)
<1>1. /\ stream > 0 /\ stream' = stream /\ received' = received + len
      /\ w' = done.line /\ out' = out \o done.out
  BY DEF filter
<1>2. /\ received \in Nat /\ w = [j \in Taps |-> w[j]]
      /\ out = [i \in 1 .. received |-> out[i]]
  BY DEF HInv, Shapes
<1>3. Len(data) = len /\ \A i \in 1 .. len : data[i] = Sample(stream, received + i)
  OBVIOUS
<1> HIDE DEF data
<1>4. done.line = LineAt(w, data, len) /\ done.out = [i \in 1 .. len |-> TapsAt(w, data, i)]
  <2>1. done = StateAt(w, data, len)
    BY <1>2, <1>3, FilteredClosed
  <2> QED
    BY <2>1 DEF StateAt
<1> HIDE DEF done
<1>5. w' = [j \in Taps |-> IF j = 0 THEN w'[0]
                           ELSE IF j <= len THEN Sample(stream, received + ((len - j) + 1))
                           ELSE w[j - len]]
  <2>1. w' = LineAt(w, data, len)
    BY <1>1, <1>4
  <2>2. ASSUME NEW j \in Taps, j # 0, j <= len
        PROVE  data[(len - j) + 1] = Sample(stream, received + ((len - j) + 1))
    <3>1. (len - j) + 1 \in 1 .. len
      BY <2>2 DEF Taps
    <3> QED
      BY <1>3, <3>1
  <2>3. w' = [j \in Taps |-> w'[j]]
    BY <2>1 DEF LineAt
  <2>4. ASSUME NEW j \in Taps, j # 0
        PROVE  w'[j] = IF j <= len THEN Sample(stream, received + ((len - j) + 1)) ELSE w[j - len]
    BY <2>1, <2>2, <2>4 DEF LineAt
  <2> QED
    BY <2>3, <2>4
<1>6. out' = [i \in 1 .. received + len |->
                IF i <= received THEN out[i]
                ELSE [j \in Taps |-> IF j < i - received THEN Sample(stream, i - j)
                                     ELSE w[(j - (i - received)) + 1]]]
  <2> DEFINE T(i) == TapsAt(w, data, i)
             new == [i \in 1 .. len |-> T(i)]
             All == {out[i] : i \in 1 .. received} \cup {T(i) : i \in 1 .. len}
  <2>1. ASSUME NEW i \in 1 .. received + len, ~(i <= received)
        PROVE  /\ i - received \in 1 .. len
               /\ T(i - received) = [j \in Taps |-> IF j < i - received THEN Sample(stream, i - j)
                                                    ELSE w[(j - (i - received)) + 1]]
    <3>1. i - received \in 1 .. len
      BY <1>2, <2>1
    <3>2. ASSUME NEW j \in Taps, j < i - received
          PROVE  data[(i - received) - j] = Sample(stream, i - j)
      <4>1. (i - received) - j \in 1 .. len /\ received + ((i - received) - j) = i - j
        BY <1>2, <3>1, <3>2 DEF Taps
      <4> QED
        BY <1>3, <4>1
    <3> QED
      BY <3>1, <3>2 DEF TapsAt
  <2> HIDE DEF T
  <2>2. out \in Seq(All) /\ Len(out) = received
    BY <1>2
  <2>3. new \in Seq(All) /\ Len(new) = len
    OBVIOUS
  <2>4. out' = out \o new
    BY <1>1, <1>4 DEF T
  <2>5. out \o new = [i \in 1 .. received + len |-> IF i <= received THEN out[i] ELSE new[i - received]]
    <3> HIDE DEF new, All
    <3> QED
      BY <1>2, <2>2, <2>3
  <2>6. \A i \in 1 .. received + len : ~(i <= received) => new[i - received] = T(i - received)
    BY <2>1
  <2> HIDE DEF new
  <2> QED
    BY <2>1, <2>4, <2>5, <2>6
<1> QED
  BY <1>1, <1>5, <1>6

\* What OutputIsConvolution says of tap j of output i.
RightTap(tap, i, j, s) ==
  /\ j < i => tap = Sample(s, i - j)
  /\ i <= j /\ j < i + ClearedTaps - 1 => tap = Silence
  /\ i > COEF_LEN - ClearedTaps => tap = Silence \/ tap.stream = s
  /\ s = 1 /\ i <= j /\ j >= i + ClearedTaps - 1 => ~(tap = Silence \/ tap.stream = s)

\* The property, tap by tap.
LEMMA OutputTaps == OutputIsConvolution <=> \A i \in DOMAIN out, j \in Taps : RightTap(out[i][j], i, j, stream)
  BY Zenon DEF OutputIsConvolution, Own, RightTap

\* A call of filter keeps the invariant, however many samples it is given.
LEMMA FilterPreserves ==
  ASSUME HInv, NEW len \in Nat, filter(len)
  PROVE  HInv'
<1> DEFINE r == received
           c == ClearedTaps
<1>1. /\ stream > 0 /\ stream' = stream /\ received' = r + len
      /\ \A j \in Taps : j # 0 =>
           w'[j] = IF j <= len THEN Sample(stream, r + ((len - j) + 1)) ELSE w[j - len]
      /\ DOMAIN out' = 1 .. r + len
      /\ \A i \in 1 .. r + len : i <= r => out'[i] = out[i]
      /\ \A i \in 1 .. r + len, j \in Taps : i > r =>
           out'[i][j] = IF j < i - r THEN Sample(stream, i - j) ELSE w[(j - (i - r)) + 1]
  <2>1. r \in Nat
    BY DEF HInv, Shapes
  <2> QED
    BY <2>1, FilterStep
<1>2. r \in Nat /\ stream \in Nat /\ c \in Nat /\ c <= COEF_LEN /\ COEF_LEN \in Nat
  BY ClearedTapsBound, FilterAssumption DEF HInv, Shapes
<1>3. \A j \in Taps : j >= 1 =>
        /\ j <= r => w[j] = Sample(stream, (r - j) + 1)
        /\ j > r /\ j - r < c => w[j] = Silence
        /\ stream = 1 /\ j > r /\ j - r >= c => w[j] # Silence /\ w[j].stream = 0
  BY <1>1 DEF HInv, LineHolds
<1>4. Shapes'
  <2>1. w' = [j \in Taps |-> w'[j]] /\ out' = [i \in 1 .. r + len |-> out'[i]]
    BY FilterStep
  <2> QED
    BY <1>1, <1>2, <2>1 DEF Shapes
<1>5. Unbegun'
  BY <1>1 DEF Unbegun
<1>6. LineHolds'
  <2> SUFFICES ASSUME NEW j \in Taps, j >= 1
               PROVE  /\ j <= r + len => w'[j] = Sample(stream, ((r + len) - j) + 1)
                      /\ j > r + len /\ j - (r + len) < c => w'[j] = Silence
                      /\ stream = 1 /\ j > r + len /\ j - (r + len) >= c =>
                           w'[j] # Silence /\ w'[j].stream = 0
    BY <1>1 DEF LineHolds
  <2>1. j \in Nat /\ j < COEF_LEN
    BY <1>2 DEF Taps
  <2>2. CASE j <= len
    <3>1. w'[j] = Sample(stream, r + ((len - j) + 1)) /\ r + ((len - j) + 1) = ((r + len) - j) + 1
      BY <1>1, <1>2, <2>1, <2>2
    <3>2. j <= r + len
      BY <1>2, <2>1, <2>2
    <3> QED
      BY <3>1, <3>2, <1>2, <2>1
  <2>3. CASE j > len
    <3> DEFINE m == j - len
    <3>1. m \in Taps /\ m >= 1 /\ m \in Nat
      BY <1>2, <2>1, <2>3 DEF Taps
    <3>2. w'[j] = w[m]
      BY <1>1, <2>1, <2>3
    <3>3. /\ j <= r + len => m <= r /\ (r - m) + 1 = ((r + len) - j) + 1
          /\ j > r + len => m > r /\ m - r = j - (r + len)
      BY <1>2, <2>1
    <3> HIDE DEF m
    <3> QED
      BY <1>3, <3>1, <3>2, <3>3
  <2> QED
    BY <2>1, <2>2, <2>3
<1>7. OutputIsConvolution'
  <2>0. OutputIsConvolution' <=>
          \A i \in DOMAIN out', j \in Taps : RightTap(out'[i][j], i, j, stream')
    BY Zenon DEF OutputIsConvolution, Own, RightTap
  <2> SUFFICES ASSUME NEW i \in 1 .. r + len, NEW j \in Taps
               PROVE  RightTap(out'[i][j], i, j, stream)
    BY <1>1, <2>0, Zenon
  <2>1. j \in Nat /\ j < COEF_LEN /\ i \in Nat /\ i >= 1
    BY <1>2 DEF Taps
  <2>2. CASE i <= r
    <3>1. i \in DOMAIN out
      BY <1>2, <2>1, <2>2 DEF HInv, Shapes
    <3>2. out'[i] = out[i]
      BY <1>1, <2>2
    <3> QED
      BY <3>1, <3>2, OutputTaps, Zenon DEF HInv
  <2>3. CASE i > r
    <3>1. CASE j < i - r
      <4>1. out'[i][j] = Sample(stream, i - j) /\ j < i
        BY <1>1, <1>2, <2>1, <2>3, <3>1
      <4>2. Sample(stream, i - j).stream = stream
        BY DEF Sample
      <4> QED
        BY <2>1, <4>1, <4>2 DEF RightTap
    <3>2. CASE ~(j < i - r)
      <4> DEFINE m == (j - (i - r)) + 1
      <4>1. m \in Taps /\ m >= 1 /\ m \in Nat
        BY <1>2, <2>1, <2>3, <3>2 DEF Taps
      <4>2. out'[i][j] = w[m]
        BY <1>1, <2>3, <3>2
      <4>3. /\ j < i => m <= r /\ (r - m) + 1 = i - j
            /\ i <= j => m > r /\ m - r = (j - i) + 1
            /\ i <= j => (j < (i + c) - 1 <=> m - r < c)
            /\ i <= j => (j >= (i + c) - 1 <=> m - r >= c)
            /\ i > COEF_LEN - c /\ i <= j => j < (i + c) - 1
            /\ j < i \/ i <= j
        BY <1>2, <2>1
      <4> HIDE DEF m
      <4>4. CASE j < i
        <5>1. w[m] = Sample(stream, i - j)
          BY <1>3, <4>1, <4>3, <4>4
        <5>2. Sample(stream, i - j).stream = stream
          BY DEF Sample
        <5> QED
          BY <2>1, <4>2, <4>4, <5>1, <5>2 DEF RightTap
      <4>5. CASE i <= j
        <5>1. m - r < c => w[m] = Silence
          BY <1>3, <4>1, <4>3, <4>5
        <5>2. stream = 1 /\ m - r >= c => w[m] # Silence /\ w[m].stream # stream
          BY <1>3, <4>1, <4>3, <4>5
        <5>3. ~(j < i)
          BY <2>1, <4>5
        <5> QED
          BY <5>3, <1>2, <2>1, <4>2, <4>3, <4>5, <5>1, <5>2 DEF RightTap
      <4> QED
        BY <4>3, <4>4, <4>5
    <3> QED
      BY <3>1, <3>2
  <2> QED
    BY <1>2, <2>1, <2>2, <2>3
<1> QED
  BY <1>4, <1>5, <1>6, <1>7 DEF HInv

(***************************************************************************)
(* The theorems.                                                           *)
(***************************************************************************)
\* The invariant holds under any sequence of initFilter, filter_int16 and
\* filter_float: the line always holds the latest samples of its stream, then
\* what remains of the taps that initFilter cleared.
THEOREM HighPassInvariance == FilterSpec => []HInv
<1>1. FilterInit => HInv
  <2> SUFFICES ASSUME FilterInit
               PROVE  HInv
    OBVIOUS
  <2>1. Shapes
    BY DEF FilterInit, Shapes
  <2>2. Unbegun /\ LineHolds /\ OutputIsConvolution
    BY DEF FilterInit, Unbegun, LineHolds, OutputIsConvolution
  <2> QED
    BY <2>1, <2>2 DEF HInv
<1>2. HInv /\ [FilterNext]_filterVars => HInv'
  <2> SUFFICES ASSUME HInv, [FilterNext]_filterVars
               PROVE  HInv'
    OBVIOUS
  <2>1. CASE initFilter
    BY <2>1, InitFilterPreserves
  <2>2. CASE \E len \in Lengths : filter(len)
    BY <2>2, FilterPreserves, FilterAssumption
  <2>3. CASE UNCHANGED filterVars
    BY <2>3 DEF HInv, Shapes, Unbegun, LineHolds, OutputIsConvolution, Own, filterVars
  <2> QED
    BY <2>1, <2>2, <2>3 DEF FilterNext
<1> QED
  BY <1>1, <1>2, PTL DEF FilterSpec

\* For every number of taps, all sizes of short and float and any cutting into
\* buffers, an output of filter_int16 or filter_float is the convolution of its
\* own stream, but for the first COEF_LEN - ClearedTaps of them, which hear what
\* the memset of initFilter leaves; on new memory each of those does.
THEOREM OutputsAreConvolutions == FilterSpec => []OutputIsConvolution
<1>1. HInv => OutputIsConvolution
  BY DEF HInv
<1> QED
  BY <1>1, HighPassInvariance, PTL
=============================================================================

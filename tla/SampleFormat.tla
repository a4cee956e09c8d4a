---------------------------- MODULE SampleFormat ----------------------------
(***************************************************************************)
(* The conversions between sample formats of the denoiser and of           *)
(* common_audio/include/audio_util.h, in exact arithmetic: a float is a    *)
(* fraction num / den with a positive den.                                 *)
(***************************************************************************)
EXTENDS Integers, TLAPS

INT16_MAX == 32767
INT16_MIN == -32768
S16 == INT16_MIN .. INT16_MAX

Float == [num : Int, den : Nat \ {0}]

\* A cast of num / den + 1/2: the fraction is cut off towards zero.
Rounded(num, den) == (2 * num + den) \div (2 * den)

\* The denoiser's FloatToS16 and the one of audio_util.h.
FloatToS16(v) ==
  IF v.num > 0
  THEN IF v.num >= v.den THEN INT16_MAX ELSE Rounded(v.num * INT16_MAX, v.den)
  ELSE IF v.num <= -v.den THEN INT16_MIN ELSE -Rounded(v.num * INT16_MIN, v.den)

S16ToFloat(v) == [num |-> v, den |-> IF v > 0 THEN INT16_MAX ELSE -INT16_MIN]

\* FloatS16ToS16 saturates half a step before the end of the range.
FloatS16ToS16(v) ==
  IF v.num > 0
  THEN IF 2 * v.num >= (2 * INT16_MAX - 1) * v.den THEN INT16_MAX ELSE Rounded(v.num, v.den)
  ELSE IF 2 * v.num <= (2 * INT16_MIN + 1) * v.den THEN INT16_MIN ELSE -Rounded(-v.num, v.den)

\* RefreshF: a sample in the S16 range as a float of the same value.
S16ToFloatS16(v) == [num |-> v, den |-> 1]
-----------------------------------------------------------------------------
\* All the proofs use of the two bounds.
LEMMA Bounds ==
  /\ INT16_MAX \in Nat \ {0}
  /\ INT16_MIN \in Int
  /\ -INT16_MIN \in Nat \ {0}
BY DEF INT16_MAX, INT16_MIN

\* The integer quotient lies below a bound that the dividend does not reach.
LEMMA QuotientBelow ==
  ASSUME NEW a \in Nat, NEW b \in Nat \ {0}, NEW k \in Nat, a < b * (k + 1)
  PROVE  a \div b \in 0 .. k
<1> DEFINE q == a \div b
           r == a % b
<1>1. q \in Int /\ r \in 0 .. b - 1 /\ a = b * q + r
  BY Z3
<1>2. q >= 0
  BY Z3
<1>3. q <= k
  <2> SUFFICES ASSUME q >= k + 1
               PROVE FALSE
    BY <1>1
  <2>1. b * q >= b * (k + 1)
    BY <1>1, Z3
  <2> QED
    BY <1>1, <2>1
<1> QED
  BY <1>1, <1>2, <1>3

\* A whole number survives rounding, whatever its denominator.
LEMMA RoundedWhole ==
  ASSUME NEW k \in Nat, NEW d \in Nat \ {0}
  PROVE  Rounded(k * d, d) = k
<1> DEFINE a == 2 * (k * d) + d
           b == 2 * d
           q == a \div b
<1>1. a \in Nat /\ b \in Nat \ {0}
  BY Z3
<1>2. q \in Int /\ a % b \in 0 .. b - 1 /\ a = b * q + (a % b)
  BY <1>1, Z3
<1>3. b * k <= a /\ a < b * (k + 1)
  BY Z3
<1>4. q < k + 1
  <2> SUFFICES ASSUME q >= k + 1
               PROVE FALSE
    BY <1>2
  <2>1. b * q >= b * (k + 1)
    BY <1>1, <1>2, Z3
  <2> QED
    BY <1>1, <1>2, <1>3, <2>1
<1>5. q > k - 1
  <2> SUFFICES ASSUME q + 1 <= k
               PROVE FALSE
    BY <1>2
  <2>1. b * (q + 1) <= b * k
    BY <1>1, <1>2, Z3
  <2>2. b * (q + 1) = b * q + b
    BY <1>1, <1>2, Z3
  <2> QED
    BY <1>1, <1>2, <1>3, <2>1, <2>2
<1> QED
  BY <1>2, <1>4, <1>5 DEF Rounded

\* Every short survives the way to [-1, 1] and back, through the denoiser's input
\* and output and through the float interface of APM_NS: the scales of positive
\* and negative samples, which differ, agree between the two functions.
THEOREM S16Survives ==
  \A v \in S16 : FloatToS16(S16ToFloat(v)) = v
<1> SUFFICES ASSUME NEW v \in S16
             PROVE  FloatToS16(S16ToFloat(v)) = v
  OBVIOUS
<1> DEFINE f == S16ToFloat(v)
<1>1. v \in Int /\ INT16_MIN <= v /\ v <= INT16_MAX
  BY Bounds DEF S16
<1>2. CASE v > 0
  <2>1. f.num = v /\ f.den = INT16_MAX
    BY <1>2 DEF S16ToFloat
  <2>2. Rounded(v * INT16_MAX, INT16_MAX) = v
    BY <1>1, <1>2, Bounds, RoundedWhole
  <2>3. CASE v >= INT16_MAX
    BY <1>1, <1>2, <2>1, <2>3, Bounds DEF FloatToS16
  <2>4. CASE ~(v >= INT16_MAX)
    BY <1>2, <2>1, <2>2, <2>4 DEF FloatToS16
  <2> QED
    BY <2>3, <2>4
<1>3. CASE ~(v > 0)
  <2> DEFINE d == -INT16_MIN
             k == -v
  <2>1. f.num = v /\ f.den = d
    BY <1>3 DEF S16ToFloat
  <2>2. k \in Nat /\ d \in Nat \ {0} /\ INT16_MIN = -d /\ v = -k
    BY <1>1, <1>3, Bounds
  <2>3. v * INT16_MIN = k * d
    <3> HIDE DEF d, k
    <3> QED
      BY <2>2, Z3
  <2>4. Rounded(k * d, d) = k
    <3> HIDE DEF d, k
    <3> QED
      BY <2>2, RoundedWhole
  <2>5. CASE v <= -d
    BY <1>1, <1>3, <2>1, <2>2, <2>5, Bounds DEF FloatToS16
  <2>6. CASE ~(v <= -d)
    <3>1. FloatToS16(f) = -Rounded(v * INT16_MIN, d)
      BY <1>3, <2>1, <2>6 DEF FloatToS16
    <3> QED
      BY <3>1, <2>2, <2>3, <2>4
  <2> QED
    BY <2>5, <2>6
<1> QED
  BY <1>2, <1>3

\* Every float, also one outside [-1, 1], becomes a short: the cast at the end of
\* FloatToS16 never meets a value it cannot represent.
THEOREM FloatFits ==
  \A v \in Float : FloatToS16(v) \in S16
<1> SUFFICES ASSUME NEW v \in Float
             PROVE  FloatToS16(v) \in S16
  OBVIOUS
<1> DEFINE n == v.num
           d == v.den
<1>1. n \in Int /\ d \in Nat \ {0}
  BY DEF Float
<1>2. CASE n > 0
  <2>1. CASE n >= d
    BY <1>2, <2>1, Bounds DEF FloatToS16, S16
  <2>2. CASE n < d
    <3> DEFINE m == INT16_MAX
               a == 2 * (n * m) + d
    <3>1. m \in Nat \ {0}
      BY Bounds
    <3> HIDE DEF m, n, d
    <3>2. n * m < d * m /\ n * m \in Nat
      BY <1>1, <1>2, <2>2, <3>1, Z3
    <3>3. a \in Nat /\ 2 * d \in Nat \ {0} /\ a < 2 * d * (m + 1)
      BY <1>1, <3>1, <3>2, Z3
    <3>4. a \div (2 * d) \in 0 .. m
      <4> HIDE DEF a
      <4> QED
        BY <3>1, <3>3, QuotientBelow
    <3>5. FloatToS16(v) = a \div (2 * d)
      BY <1>1, <1>2, <2>2 DEF FloatToS16, Rounded, a, n, d, m
    <3> QED
      BY <3>1, <3>4, <3>5, Bounds DEF S16, m
  <2> QED
    BY <1>1, <2>1, <2>2
<1>3. CASE ~(n > 0)
  <2>1. CASE n <= -d
    BY <1>3, <2>1, Bounds DEF FloatToS16, S16
  <2>2. CASE ~(n <= -d)
    <3> DEFINE m == -INT16_MIN
               k == -n
               a == 2 * (n * INT16_MIN) + d
    <3>1. m \in Nat \ {0} /\ INT16_MIN = -m /\ k \in Nat /\ n = -k /\ k < d
      BY <1>1, <1>3, <2>2, Bounds
    <3> HIDE DEF m, k, n, d
    <3>2. n * INT16_MIN = k * m
      BY <3>1, Z3
    <3>3. k * m < d * m /\ k * m \in Nat
      BY <1>1, <3>1, Z3
    <3>4. a \in Nat /\ 2 * d \in Nat \ {0} /\ a < 2 * d * (m + 1)
      BY <1>1, <3>1, <3>2, <3>3, Z3
    <3>5. a \div (2 * d) \in 0 .. m
      <4> HIDE DEF a
      <4> QED
        BY <3>1, <3>4, QuotientBelow
    <3>6. FloatToS16(v) = -(a \div (2 * d))
      BY <1>3, <2>2 DEF FloatToS16, Rounded, a, n, d
    <3> QED
      BY <3>1, <3>5, <3>6, Bounds DEF S16
  <2> QED
    BY <2>1, <2>2
<1> QED
  BY <1>2, <1>3

\* Both copies of an IFChannelBuffer agree: converting shorts to floats (RefreshF)
\* and back (RefreshI) changes no sample, at the saturated ends neither.
THEOREM CopiesAgree ==
  \A v \in S16 : FloatS16ToS16(S16ToFloatS16(v)) = v
<1> SUFFICES ASSUME NEW v \in S16
             PROVE  FloatS16ToS16(S16ToFloatS16(v)) = v
  OBVIOUS
<1> DEFINE f == S16ToFloatS16(v)
<1>1. v \in Int /\ INT16_MIN <= v /\ v <= INT16_MAX
  BY Bounds DEF S16
<1>2. f.num = v /\ f.den = 1
  BY DEF S16ToFloatS16
<1>3. CASE v > 0
  <2>1. Rounded(v * 1, 1) = v /\ v * 1 = v
    BY <1>1, <1>3, RoundedWhole
  <2> QED
    BY <1>1, <1>2, <1>3, <2>1, Bounds DEF FloatS16ToS16
<1>4. CASE ~(v > 0)
  <2>1. Rounded((-v) * 1, 1) = -v /\ (-v) * 1 = -v
    BY <1>1, <1>4, RoundedWhole
  <2> QED
    BY <1>1, <1>2, <1>4, <2>1, Bounds DEF FloatS16ToS16
<1> QED
  BY <1>3, <1>4
=============================================================================

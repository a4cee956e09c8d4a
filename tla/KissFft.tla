------------------------------- MODULE KissFft -------------------------------
(***************************************************************************)
(* The mixed-radix transforms of common/kiss_fft: kiss_fft, and kiss_fftr  *)
(* and kiss_fftri, on which the denoiser rests, built without FIXED_POINT, *)
(* USE_SIMD and _OPENMP.                                                   *)
(*                                                                         *)
(* The code is correct if it is correct in exact arithmetic, and its       *)
(* identities hold in every field with an i whose square is -1 and with    *)
(* the roots of unity it asks for.  Numbers are therefore taken from the   *)
(* integers modulo Prime, complex numbers are pairs of them, and the unit  *)
(* circle is the cyclic group of the Order pairs with r^2 + i^2 = 1.  The  *)
(* rounding of floats is left out.                                         *)
(*                                                                         *)
(* The transforms are linear over the reals, so that a size is settled by  *)
(* its unit vectors, real and imaginary.                                   *)
(***************************************************************************)
EXTENDS Integers, Sequences

CONSTANTS
  Sizes,      \* sizes of complex transforms
  RealSizes,  \* sizes given to kiss_fftr_alloc
  Strides     \* distances between the samples of a complex input

VARIABLES
  st,         \* the complex configuration, or NULL
  str,        \* the real configurations, the forward one at FALSE, or NULL
  fin,        \* the input of the last complex transform, or <<>>
  in_stride,  \* and its stride
  fout,       \* its output
  timedata,   \* the last real signal given to kiss_fftr, or <<>>
  freqdata,   \* its spectrum
  result,     \* what kiss_fftri made of that spectrum, or <<>>
  ended       \* "no", "exit" after exit(1) for a configuration of the wrong
              \* direction, "crashed" after a write through NULL

vars == <<st, str, fin, in_stride, fout, timedata, freqdata, result, ended>>

NULL == <<>>

\* A prime that is 3 modulo 4, so that -1 has no square root modulo Prime.
Prime == 10079
Order == Prime + 1
\* A pair that generates the circle, a quarter of which is i.
Generator == [r |-> 4630, i |-> 227]

ASSUME SizesAssumption == \A n \in Sizes : n > 0 /\ Order % n = 0
ASSUME StridesAssumption == \A d \in Strides : d > 0
ASSUME RealSizesAssumption == \A n \in RealSizes : n > 0 /\ (n % 2 = 0 => Order % n = 0)

mod(x) == x % Prime
HALF_OF(x) == mod(x * ((Prime + 1) \div 2))
Cpx(r, i) == [r |-> mod(r), i |-> mod(i)]
C_ADD(a, b) == Cpx(a.r + b.r, a.i + b.i)
C_SUB(a, b) == Cpx(a.r - b.r, a.i - b.i)
C_MUL(a, b) == Cpx(mod(a.r * b.r) - mod(a.i * b.i), mod(a.r * b.i) + mod(a.i * b.r))
C_MULBYSCALAR(a, s) == Cpx(a.r * s, a.i * s)
Conj(a) == Cpx(a.r, -a.i)
TimesI(a) == Cpx(-a.i, a.r)
Zero == Cpx(0, 0)
One == Cpx(1, 0)
I == Cpx(0, 1)

RECURSIVE Power(_, _)
Power(a, e) ==
  IF e = 0 THEN One
  ELSE LET h == Power(a, e \div 2)
           s == C_MUL(h, h)
       IN IF e % 2 = 0 THEN s ELSE C_MUL(s, a)

\* cos + i sin of a phase, given in parts of a full circle of Order parts.
kf_cexp(phase) == Power(Generator, phase % Order)
Turn(num, den) == num * (Order \div den)
-----------------------------------------------------------------------------
(***************************************************************************)
(* Configurations.                                                         *)
(***************************************************************************)
floor_sqrt(n) == CHOOSE r \in 0 .. n : r * r <= n /\ n < (r + 1) * (r + 1)

\* Variant: the search gives up one candidate too early.
GivesUpEarly(p, root) == p >= root
GivesUp(p, root) == p > root

\* The inner loop of kf_factor: from p on, 4, 2, 3, 5, 7, 9..., the first radix
\* that divides n, or n itself.
RECURSIVE Radix(_, _, _)
Radix(n, p, root) ==
  IF n % p = 0 THEN p
  ELSE LET q == CASE p = 4 -> 2 [] p = 2 -> 3 [] OTHER -> p + 2
       IN Radix(n, IF GivesUp(q, root) THEN n ELSE q, root)

RECURSIVE FactorsFrom(_, _, _)
FactorsFrom(n, p, root) ==
  LET q == Radix(n, p, root)
      m == n \div q
  IN <<[p |-> q, m |-> m]>> \o IF m > 1 THEN FactorsFrom(m, q, root) ELSE <<>>

kf_factor(n) == FactorsFrom(n, 4, floor_sqrt(n))

\* What is written into the memory of a configuration; mem tells whether there
\* is any, from malloc or from kiss_fftr_alloc.
kiss_fft_alloc(nfft, inverse, mem) ==
  IF ~mem THEN NULL
  ELSE [nfft |-> nfft,
        inverse |-> inverse,
        twiddles |-> [i \in 0 .. nfft - 1 |-> kf_cexp(Turn(IF inverse THEN i ELSE -i, nfft))],
        factors |-> kf_factor(nfft)]

\* Variant: the half turn is missing from the phase.
SuperPhaseShort(i, nfft) == Turn(i + 1, 2 * nfft)

\* A phase of (i+1)/nfft + 1/2 half turns.
SuperPhase(i, nfft) == Turn(i + 1, 2 * nfft) + Turn(1, 4)

\* An odd size is refused.  One malloc, which gives memory or not, is shared with
\* the complex configuration of half the size.
kiss_fftr_alloc(size, inverse, mem) ==
  LET nfft == size \div 2 IN
  IF size % 2 = 1 \/ ~mem THEN NULL
  ELSE [substate |-> kiss_fft_alloc(nfft, inverse, TRUE),
        super_twiddles |-> [i \in 0 .. nfft \div 2 - 1 |->
          kf_cexp(IF inverse THEN SuperPhase(i, nfft) ELSE -SuperPhase(i, nfft))]]
-----------------------------------------------------------------------------
(***************************************************************************)
(* The butterflies.  Each one is given column u of a stage, the p values   *)
(* Fout[u], Fout[u + m], ..., and yields the p values it puts there.       *)
(***************************************************************************)
Col(Fout, u, m, p) == [q \in 0 .. p - 1 |-> Fout[u + q * m]]

\* scratch: the values of a column times their twiddles.
Twiddled(x, fstride, cf, u) ==
  [q \in DOMAIN x |-> C_MUL(x[q], cf.twiddles[q * u * fstride])]

kf_bfly2(x, fstride, cf, u) ==
  LET t == Twiddled(x, fstride, cf, u)[1] IN <<C_ADD(x[0], t), C_SUB(x[0], t)>>

\* Variant: the quarter turn goes the same way in both directions.
QuarterForward(cf, a) == C_SUB(Zero, TimesI(a))
Quarter(cf, a) == IF cf.inverse THEN TimesI(a) ELSE C_SUB(Zero, TimesI(a))

kf_bfly4(x, fstride, cf, u) ==
  LET t == Twiddled(x, fstride, cf, u)
      even == C_ADD(x[0], t[2])
      s3 == C_ADD(t[1], t[3])
      s4 == Quarter(cf, C_SUB(t[1], t[3]))
      s5 == C_SUB(x[0], t[2])
  IN <<C_ADD(even, s3), C_ADD(s5, s4), C_SUB(even, s3), C_SUB(s5, s4)>>

kf_bfly3(x, fstride, cf, u, m) ==
  LET t == Twiddled(x, fstride, cf, u)
      epi3 == cf.twiddles[fstride * m]
      s3 == C_ADD(t[1], t[2])
      s0 == TimesI(C_MULBYSCALAR(C_SUB(t[1], t[2]), epi3.i))
      base == Cpx(x[0].r - HALF_OF(s3.r), x[0].i - HALF_OF(s3.i))
  IN <<C_ADD(x[0], s3), C_ADD(base, s0), C_SUB(base, s0)>>

kf_bfly5(x, fstride, cf, u, m) ==
  LET t == Twiddled(x, fstride, cf, u)
      ya == cf.twiddles[fstride * m]
      yb == cf.twiddles[fstride * 2 * m]
      s7 == C_ADD(t[1], t[4])
      s10 == C_SUB(t[1], t[4])
      s8 == C_ADD(t[2], t[3])
      s9 == C_SUB(t[2], t[3])
      s5 == C_ADD(x[0], C_ADD(C_MULBYSCALAR(s7, ya.r), C_MULBYSCALAR(s8, yb.r)))
      s6 == C_SUB(Zero, TimesI(C_ADD(C_MULBYSCALAR(s10, ya.i), C_MULBYSCALAR(s9, yb.i))))
      s11 == C_ADD(x[0], C_ADD(C_MULBYSCALAR(s7, yb.r), C_MULBYSCALAR(s8, ya.r)))
      s12 == TimesI(C_SUB(C_MULBYSCALAR(s10, yb.i), C_MULBYSCALAR(s9, ya.i)))
  IN <<C_ADD(x[0], C_ADD(s7, s8)),
       C_SUB(s5, s6), C_ADD(s11, s12), C_SUB(s11, s12), C_ADD(s5, s6)>>

\* Any other radix: a plain sum, with the twiddle index kept below nfft by one
\* subtraction per term.
kf_bfly_generic(x, fstride, cf, u, m, p) ==
  LET Value(k) ==
        LET twidx[q \in 0 .. p - 1] ==
              IF q = 0 THEN 0
              ELSE LET t == twidx[q - 1] + fstride * k
                   IN IF t >= cf.nfft THEN t - cf.nfft ELSE t
            sum[q \in 0 .. p - 1] ==
              IF q = 0 THEN x[0]
              ELSE C_ADD(sum[q - 1], C_MUL(x[q], cf.twiddles[twidx[q]]))
        IN sum[p - 1]
  IN [q1 \in 1 .. p |-> Value(u + (q1 - 1) * m)]

Butterfly(x, fstride, cf, u, m, p) ==
  CASE p = 2 -> kf_bfly2(x, fstride, cf, u)
    [] p = 3 -> kf_bfly3(x, fstride, cf, u, m)
    [] p = 4 -> kf_bfly4(x, fstride, cf, u)
    [] p = 5 -> kf_bfly5(x, fstride, cf, u, m)
    [] OTHER -> kf_bfly_generic(x, fstride, cf, u, m, p)

\* kf_work: p transforms of size m of the decimated input, recombined.
RECURSIVE kf_work(_, _, _, _, _, _)
kf_work(f, from, fstride, step, factors, cf) ==
  LET p == factors[1].p
      m == factors[1].m
      start(q) == from + q * fstride * step
      part == [q \in 0 .. p - 1 |->
                 IF m = 1 THEN [u \in {0} |-> f[start(q)]]
                 ELSE kf_work(f, start(q), fstride * p, step, Tail(factors), cf)]
      Fout == [k \in 0 .. p * m - 1 |-> part[k \div m][k % m]]
      column == [u \in 0 .. m - 1 |-> Butterfly(Col(Fout, u, m, p), fstride, cf, u, m, p)]
  IN [k \in 0 .. p * m - 1 |-> column[k % m][k \div m + 1]]

\* The output buffer.  In place (fin == fout) the result is made in a temporary
\* buffer and then copied over the first nfft values of the input.
kiss_fft_stride(cf, f, step, inPlace) ==
  LET work == kf_work(f, 0, 1, step, cf.factors, cf)
  IN IF inPlace THEN [j \in DOMAIN f |-> IF j < cf.nfft THEN work[j] ELSE f[j]] ELSE work
kiss_fft(cf, f) == kiss_fft_stride(cf, f, 1, FALSE)

\* The next size that is a product of twos, threes and fives only.
RECURSIVE Without(_, _)
Without(m, d) == IF m % d = 0 THEN Without(m \div d, d) ELSE m

RECURSIVE kiss_fft_next_fast_size(_)
kiss_fft_next_fast_size(n) ==
  IF Without(Without(Without(n, 2), 3), 5) <= 1 THEN n ELSE kiss_fft_next_fast_size(n + 1)
-----------------------------------------------------------------------------
(***************************************************************************)
(* The transforms of real signals: the even and odd samples are the real   *)
(* and imaginary parts of a complex signal of half the size.               *)
(***************************************************************************)
Packed(time, ncfft) == [j \in 0 .. ncfft - 1 |-> Cpx(time[2 * j], time[2 * j + 1])]
Unpacked(z, ncfft) ==
  [j \in 0 .. 2 * ncfft - 1 |-> IF j % 2 = 0 THEN z[j \div 2].r ELSE z[j \div 2].i]

HalfOf(a) == Cpx(HALF_OF(a.r), HALF_OF(a.i))

\* Variant: the imaginary part of a mirrored bin keeps its sign.
MirroredPlain(a) == a
Mirrored(a) == Conj(a)

\* Bin k and, from the same k, bin ncfft - k, which is written last where the
\* two coincide.
kiss_fftr(cf, time) ==
  LET ncfft == cf.substate.nfft
      tmpbuf == kiss_fft(cf.substate, Packed(time, ncfft))
      tdc == tmpbuf[0]
      f1k(k) == C_ADD(tmpbuf[k], Conj(tmpbuf[ncfft - k]))
      tw(k) == C_MUL(C_SUB(tmpbuf[k], Conj(tmpbuf[ncfft - k])), cf.super_twiddles[k - 1])
  IN [k \in 0 .. ncfft |->
        IF k = 0 THEN Cpx(tdc.r + tdc.i, 0)
        ELSE IF k = ncfft THEN Cpx(tdc.r - tdc.i, 0)
        ELSE IF 2 * k < ncfft THEN HalfOf(C_ADD(f1k(k), tw(k)))
        ELSE Conj(HalfOf(C_SUB(f1k(ncfft - k), tw(ncfft - k))))]

kiss_fftri(cf, freq) ==
  LET ncfft == cf.substate.nfft
      fek(k) == C_ADD(freq[k], Conj(freq[ncfft - k]))
      fok(k) == C_MUL(C_SUB(freq[k], Conj(freq[ncfft - k])), cf.super_twiddles[k - 1])
      tmpbuf == [k \in 0 .. ncfft - 1 |->
        IF k = 0 THEN Cpx(freq[0].r + freq[ncfft].r, freq[0].r - freq[ncfft].r)
        ELSE IF 2 * k < ncfft THEN C_ADD(fek(k), fok(k))
        ELSE Mirrored(C_SUB(fek(ncfft - k), fok(ncfft - k)))]
  IN Unpacked(kiss_fft(cf.substate, tmpbuf), ncfft)
-----------------------------------------------------------------------------
(***************************************************************************)
(* A program that uses the library.  A call leaves nothing behind that a   *)
(* later call reads (tmpbuf is rewritten whole), so it makes one transform *)
(* of each kind: `Once` bounds it.                                         *)
(***************************************************************************)
\* The unit vectors of n samples: 1 or the given unit at one place.
UnitVectors(n, units, zero) ==
  {[j \in 0 .. n - 1 |-> IF j = at THEN u ELSE zero] : at \in 0 .. n - 1, u \in units}

Init ==
  /\ st = NULL
  /\ str = [inverse \in BOOLEAN |-> NULL]
  /\ fin = <<>> /\ in_stride = 1 /\ fout = <<>>
  /\ timedata = <<>> /\ freqdata = <<>> /\ result = <<>>
  /\ ended = "no"

Once(buffer) == buffer = <<>>

Fresh == st = NULL /\ \A inverse \in BOOLEAN : str[inverse] = NULL

\* malloc may fail, in either allocation.
Alloc(n, inverse) ==
  /\ Fresh
  /\ \E mem \in BOOLEAN : st' = kiss_fft_alloc(n, inverse, mem)
  /\ UNCHANGED <<str, fin, in_stride, fout, timedata, freqdata, result, ended>>

\* The caller allocates both directions of one size.
AllocReal(n) ==
  /\ Fresh
  /\ \E mem \in [BOOLEAN -> BOOLEAN] :
       str' = [inverse \in BOOLEAN |-> kiss_fftr_alloc(n, inverse, mem[inverse])]
  /\ UNCHANGED <<st, fin, in_stride, fout, timedata, freqdata, result, ended>>

Transform(f, step, inPlace) ==
  /\ ended = "no" /\ Once(fin)
  /\ fin' = f /\ in_stride' = step
  /\ fout' = kiss_fft_stride(st, f, step, inPlace)
  /\ UNCHANGED <<st, str, timedata, freqdata, result, ended>>

\* In place, the malloc of the temporary buffer is not checked.
TransformCrashes ==
  /\ st # NULL /\ ended = "no" /\ Once(fin)
  /\ ended' = "crashed"
  /\ UNCHANGED <<st, str, fin, in_stride, fout, timedata, freqdata, result>>

\* kiss_fftr given the configuration of one direction, which must be forward.
RealForward(inverse, x) ==
  /\ ended = "no" /\ Once(timedata)
  /\ IF str[inverse].substate.inverse
     THEN ended' = "exit" /\ UNCHANGED <<timedata, freqdata, result>>
     ELSE /\ timedata' = x
          /\ freqdata' = kiss_fftr(str[inverse], x)
          /\ UNCHANGED <<result, ended>>
  /\ UNCHANGED <<st, str, fin, in_stride, fout>>

\* kiss_fftri, which needs the backward one.
RealBackward(inverse) ==
  /\ ended = "no" /\ freqdata # <<>> /\ Once(result)
  /\ IF ~str[inverse].substate.inverse
     THEN ended' = "exit" /\ UNCHANGED result
     ELSE /\ result' = kiss_fftri(str[inverse], freqdata)
          /\ UNCHANGED ended
  /\ UNCHANGED <<st, str, fin, in_stride, fout, timedata, freqdata>>

Next ==
  \/ \E n \in Sizes, inverse \in BOOLEAN : Alloc(n, inverse)
  \/ \E n \in RealSizes : AllocReal(n)
  \/ /\ st # NULL
     /\ \E step \in Strides, inPlace \in BOOLEAN :
          \E f \in UnitVectors(st.nfft * step, {One, I}, Zero) : Transform(f, step, inPlace)
  \/ TransformCrashes
  \/ \E inverse \in BOOLEAN :
       /\ str[inverse] # NULL
       /\ \/ \E x \in UnitVectors(2 * str[inverse].substate.nfft, {1}, 0) :
               RealForward(inverse, x)
          \/ RealBackward(inverse)

Spec == Init /\ [][Next]_vars
-----------------------------------------------------------------------------
(***************************************************************************)
(* Properties.                                                             *)
(***************************************************************************)
\* Bin k of the discrete Fourier transform of n samples x(0) .. x(n - 1), by its
\* definition: a sum with powers of one root of unity.
Dft(x(_), n, k, sign) ==
  LET sum[j \in 0 .. n] ==
        IF j = 0 THEN Zero
        ELSE C_ADD(sum[j - 1], C_MUL(x(j - 1), kf_cexp(Turn(sign * ((j - 1) * k % n), n))))
  IN sum[n]

\* kiss_fft computes the discrete Fourier transform of every in_stride-th input
\* sample, in the direction of its configuration, whatever radices kf_factor
\* found, through all butterflies and the digit-reversed reading of kf_work, into
\* another buffer or in place.
TransformIsDft ==
  fout # <<>> =>
    LET sample(j) == fin[j * in_stride]
    IN \A k \in 0 .. st.nfft - 1 :
         fout[k] = Dft(sample, st.nfft, k, IF st.inverse THEN 1 ELSE -1)

\* kiss_fftr yields the first half of the transform of a real signal and its
\* Nyquist bin, the bin in the middle, which the loop writes twice, included.
SpectrumIsDft ==
  freqdata # <<>> =>
    LET n == 2 * str[FALSE].substate.nfft
        sample(j) == Cpx(timedata[j], 0)
    IN \A k \in 0 .. n \div 2 : freqdata[k] = Dft(sample, n, k, -1)

\* kiss_fftri undoes kiss_fftr up to the factor nfft that the denoiser divides
\* by; it runs only with a backward configuration.
RoundTripScales ==
  result # <<>> =>
    LET n == 2 * str[TRUE].substate.nfft
    IN \A j \in 0 .. n - 1 : result[j] = n * timedata[j]

\* A size from kiss_fft_next_fast_size never reaches the quadratic
\* kf_bfly_generic: the radices kf_factor finds for it are 2, 3, 4 and 5 (1 for
\* the size 1), and it is the first such size.
FastSizesAvoidGeneric ==
  st # NULL =>
    LET Fast(n) == \A i \in DOMAIN kf_factor(n) : kf_factor(n)[i].p <= 5
        next == kiss_fft_next_fast_size(st.nfft)
    IN Fast(next) /\ \A n \in st.nfft .. next - 1 : ~Fast(n)
=============================================================================

----------------------------- MODULE ApmNsProofs -----------------------------
(***************************************************************************)
(* Proofs about ApmNs, for every set of rates and channel counts, frames   *)
(* of any length and any number of initialisations: which handles an       *)
(* object owns, which channels they have served, and where the samples of  *)
(* a processed frame are.                                                  *)
(***************************************************************************)
EXTENDS ApmNs, FiniteSetTheorems, SequenceTheorems, WellFoundedInduction, TLAPS

(***************************************************************************)
(* The inductive invariant.                                                *)
(***************************************************************************)

\* A vector of handles of one kind, each of them once, from the first
\* initialisations.
OwnVector(v, kind, upto) ==
  /\ v \in Seq(Handles)
  /\ \A i \in 1 .. Len(v) : v[i][1] = kind /\ v[i][2] <= upto
  /\ \A i, j \in 1 .. Len(v) : v[i] = v[j] => i = j

VectorsOwn ==
  /\ OwnVector(m_nsHandles, "ns", inits)
  /\ OwnVector(m_agcHandles, "agc", inits)
  /\ OwnVector(m_rnnoiseHandles, "rnn", inits)
  /\ m_captureLevel \in Seq({Zero} \cup Handles)

\* An object that was never initialised holds nothing.
Blank ==
  inits = 0 =>
    /\ Owned = {} /\ live = {} /\ m_captureLevel = <<>>
    /\ capture_buffer = NoBuffer /\ ready = "none"

\* The object owns what lives, until an initialisation replaces handles or
\* fails.
OwnsLive ==
  IF alive THEN /\ Owned \subseteq live
                /\ inits <= 1 /\ ~failed => live \subseteq Owned
           ELSE inits <= 1 /\ ~failed => live = {}

\* The channel a handle of vector v has served is its place in v.
ServedAt(v) == \A p \in served : \A i \in 1 .. Len(v) : p[1] = v[i] => p[2] = i - 1

ServedInPlace ==
  /\ \A p \in served : p[1][2] <= inits
  /\ ServedAt(m_nsHandles) /\ ServedAt(m_agcHandles) /\ ServedAt(m_rnnoiseHandles)

\* The buffer of a noise suppression session, and of a first session, fits.
BufferFits == ready = "ns" \/ (ready = "rnn" /\ inits <= 1) => Fits

AInv ==
  /\ TypeOK
  /\ VectorsOwn
  /\ Blank
  /\ IndicesInRange
  /\ OwnsLive
  /\ ServedInPlace
  /\ OneChannelPerHandle
  /\ LevelsOwn
  /\ LevelsOfChannel
  /\ BufferFits
  /\ OverrunNeedsOldBuffer
-----------------------------------------------------------------------------
(***************************************************************************)
(* Handles and vectors of handles.                                         *)
(***************************************************************************)
KindsOfHandle == {"ns", "agc", "rnn"}

\* A handle is of a known kind, from one of the initialisations.
LEMMA HandleParts ==
  ASSUME NEW h \in Handles
  PROVE  h[1] \in KindsOfHandle /\ h[2] \in 1 .. MaxInits
BY DEF Handles, KindsOfHandle

\* The handles of the first channels of an initialisation.
LEMMA HandleOfChannel ==
  ASSUME NEW c \in Channels, NEW i \in 1 .. c, NEW n \in 1 .. MaxInits,
         NEW kind \in KindsOfHandle
  PROVE  <<kind, n, i>> \in Handles
<1>1. c \in Counts /\ i \in 1 .. c
  BY ChannelsAssumption DEF Counts
<1>2. i \in UNION {1 .. d : d \in Counts}
  BY <1>1
<1> QED
  BY <1>2 DEF Handles, KindsOfHandle

\* The channels a loop over c of them really runs over.
Begun(c) == IF c > 0 THEN c ELSE 0

\* The handles a loop over the first channels creates: in order of the
\* channels, each of them once, all from this initialisation.
LEMMA CreatedHandles ==
  ASSUME NEW c \in Channels, NEW count \in 0 .. Begun(c), NEW n \in 1 .. MaxInits,
         NEW kind \in KindsOfHandle
  PROVE  LET v == Created(kind, n, count) IN
         /\ v \in Seq(Handles) /\ Len(v) = count
         /\ \A i \in 1 .. count : v[i] = <<kind, n, i>>
         /\ OwnVector(v, kind, n)
         /\ \A h \in Range(v) : h[2] = n
<1> USE ChannelsAssumption, MaxInitsAssumption
<1> DEFINE v == Created(kind, n, count)
<1>0. count \in Nat /\ \A i \in 1 .. count : i \in 1 .. c
  BY DEF Begun
<1>1. \A i \in 1 .. count : <<kind, n, i>> \in Handles
  BY <1>0, HandleOfChannel
<1>2. v \in Seq(Handles) /\ Len(v) = count /\ \A i \in 1 .. count : v[i] = <<kind, n, i>>
  BY <1>0, <1>1 DEF Created
<1>3. DOMAIN v = 1 .. count
  BY DEF Created
<1> HIDE DEF v
<1>4. OwnVector(v, kind, n)
  BY <1>0, <1>2 DEF OwnVector
<1>5. \A h \in Range(v) : h[2] = n
  BY <1>2, <1>3 DEF Range
<1> QED
  BY <1>2, <1>4, <1>5 DEF v

\* The range of a vector is what its places hold.
LEMMA InRange ==
  ASSUME NEW S, NEW v \in Seq(S)
  PROVE  /\ \A h \in Range(v) : \E i \in 1 .. Len(v) : h = v[i]
         /\ \A i \in 1 .. Len(v) : v[i] \in Range(v)
         /\ Range(v) \subseteq S
<1>1. Range(v) = {v[i] : i \in 1 .. Len(v)} /\ Range(v) \in SUBSET S
  BY RangeEquality, RangeOfSeq
<1> QED
  BY <1>1, Zenon

\* A vector stays one when more initialisations are counted.
LEMMA OwnLonger ==
  ASSUME NEW v, NEW kind, NEW m \in Nat, NEW n \in Nat, m <= n, OwnVector(v, kind, m)
  PROVE  OwnVector(v, kind, n)
<1>1. ASSUME NEW i \in 1 .. Len(v)
      PROVE  v[i][2] <= n
  <2>1. v[i] \in Handles /\ v[i][2] <= m
    BY DEF OwnVector
  <2> QED
    BY <2>1, HandleParts, MaxInitsAssumption
<1> QED
  BY <1>1 DEF OwnVector

\* Handles of a new initialisation pushed behind older ones.
LEMMA OwnConcat ==
  ASSUME NEW v, NEW w, NEW kind, NEW m \in Nat, OwnVector(v, kind, m),
         OwnVector(w, kind, m + 1), \A h \in Range(w) : h[2] = m + 1
  PROVE  OwnVector(v \o w, kind, m + 1)
<1>1. /\ v \o w \in Seq(Handles) /\ Len(v \o w) = Len(v) + Len(w)
      /\ \A i \in 1 .. Len(v) + Len(w) :
           (v \o w)[i] = IF i <= Len(v) THEN v[i] ELSE w[i - Len(v)]
      /\ Len(v) \in Nat /\ Len(w) \in Nat
  BY ConcatProperties DEF OwnVector
<1> DEFINE u == v \o w
<1> HIDE DEF u
<1>2. ASSUME NEW i \in 1 .. Len(u), i <= Len(v)
      PROVE  i \in 1 .. Len(v) /\ u[i] = v[i] /\ u[i][1] = kind /\ u[i][2] <= m /\ u[i][2] \in Nat
  <2>1. i \in 1 .. Len(v) /\ u[i] = v[i]
    BY <1>1, <1>2 DEF u
  <2>2. v[i] \in Handles /\ v[i][1] = kind /\ v[i][2] <= m
    BY <2>1 DEF OwnVector
  <2> QED
    BY <2>1, <2>2, HandleParts, MaxInitsAssumption
<1>3. ASSUME NEW i \in 1 .. Len(u), ~(i <= Len(v))
      PROVE  /\ i - Len(v) \in 1 .. Len(w) /\ u[i] = w[i - Len(v)]
             /\ u[i][1] = kind /\ u[i][2] = m + 1
  <2>1. i - Len(v) \in 1 .. Len(w) /\ u[i] = w[i - Len(v)]
    BY <1>1, <1>3 DEF u
  <2>2. u[i] \in Range(w) /\ u[i][1] = kind
    BY <2>1, InRange DEF OwnVector
  <2> QED
    BY <2>1, <2>2
<1>4. \A i \in 1 .. Len(u) : u[i][1] = kind /\ u[i][2] <= m + 1
  BY <1>1, <1>2, <1>3
<1>5. ASSUME NEW i \in 1 .. Len(u), NEW j \in 1 .. Len(u), u[i] = u[j]
      PROVE  i = j
  <2>1. CASE i <= Len(v) /\ j <= Len(v)
    BY <1>2, <1>5, <2>1 DEF OwnVector
  <2>2. CASE ~(i <= Len(v)) /\ ~(j <= Len(v))
    <3>1. i - Len(v) = j - Len(v)
      BY <1>3, <1>5, <2>2 DEF OwnVector
    <3> QED
      BY <1>1, <3>1 DEF u
  <2>3. CASE i <= Len(v) /\ ~(j <= Len(v))
    BY <1>2, <1>3, <1>5, <2>3
  <2>4. CASE ~(i <= Len(v)) /\ j <= Len(v)
    BY <1>2, <1>3, <1>5, <2>4
  <2> QED
    BY <2>1, <2>2, <2>3, <2>4
<1> QED
  BY <1>1, <1>4, <1>5 DEF OwnVector, u

\* What a loop over c channels has created when it stops.
LEMMA StopParts ==
  ASSUME NEW c \in Channels, NEW agc \in BOOLEAN,
         NEW later \in {NsFailures, {}}, NEW stop \in Stops(c, agc, later),
         NEW n \in 1 .. MaxInits
  PROVE  /\ stop[1] - 1 \in 0 .. Begun(c)
         /\ AgcCount(agc, stop) \in 0 .. Begun(c)
         /\ ~agc => AgcCount(agc, stop) = 0
         /\ stop[2] = "no" => /\ stop[1] - 1 = Begun(c)
                              /\ agc => AgcCount(agc, stop) = Begun(c)
                              /\ Dropped(n, stop) = {}
         /\ Dropped(n, stop) \subseteq Handles
<1> USE ChannelsAssumption, MaxInitsAssumption
<1>0. Begun(c) \in Nat /\ (IF c < 0 THEN 1 ELSE c + 1) = Begun(c) + 1
  BY DEF Begun
<1> DEFINE d == Begun(c)
<1>1. CASE stop = <<d + 1, "no">>
  <2> HIDE DEF d
  <2>1. d \in Nat
    BY <1>0 DEF d
  <2>2. stop[1] = d + 1 /\ stop[2] = "no"
    BY <1>1
  <2> QED
    BY <2>1, <2>2 DEF AgcCount, Dropped, NsFailures, d
<1>2. CASE stop \in (1 .. c) \X (NsFailures \cup AgcFailures)
  <2>1. stop[1] \in 1 .. c /\ stop[2] \in NsFailures \cup AgcFailures
    BY <1>2
  <2>a. stop[1] \in 1 .. d
    BY <2>1 DEF Begun
  <2>2. stop[2] # "no"
    BY <2>1 DEF NsFailures, AgcFailures
  <2>3. AgcCount(agc, stop) \in 0 .. d /\ (~agc => AgcCount(agc, stop) = 0)
    BY <1>0, <2>a DEF AgcCount
  <2>4. <<"agc", n, stop[1]>> \in Handles /\ <<"ns", n, stop[1]>> \in Handles
    BY <2>1, HandleOfChannel DEF KindsOfHandle
  <2>5. Dropped(n, stop) \subseteq Handles
    BY <2>4 DEF Dropped
  <2> QED
    BY <1>0, <2>a, <2>2, <2>3, <2>5
<1> QED
  BY <1>0, <1>1, <1>2 DEF Stops

\* The levels with one Zero more for every new gain control.
Level == {Zero} \cup Handles

\* What pushing the levels of new gain controls leaves in m_captureLevel.
LEMMA PushedLevels ==
  ASSUME NEW levels \in Seq(Level), NEW count \in Nat
  PROVE  LET v == LevelsPushed(levels, count) IN
         /\ v \in Seq(Level) /\ Len(v) = Len(levels) + count
         /\ \A i \in 1 .. Len(v) : v[i] = IF i <= Len(levels) THEN levels[i] ELSE Zero
<1> DEFINE z == [i \in 1 .. count |-> Zero]
<1>1. z \in Seq(Level) /\ Len(z) = count /\ \A i \in 1 .. count : z[i] = Zero
  BY DEF Level
<1>2. LevelsPushed(levels, count) = levels \o z
  BY DEF LevelsPushed
<1> HIDE DEF z
<1>3. /\ levels \o z \in Seq(Level) /\ Len(levels \o z) = Len(levels) + count
      /\ \A i \in 1 .. Len(levels) + count :
           (levels \o z)[i] = IF i <= Len(levels) THEN levels[i] ELSE z[i - Len(levels)]
      /\ Len(levels) \in Nat
  <2>1. Len(levels) \in Nat
    OBVIOUS
  <2>2. /\ levels \o z \in Seq(Level) /\ Len(levels \o z) = Len(levels) + Len(z)
        /\ \A i \in 1 .. Len(levels) + Len(z) :
             (levels \o z)[i] = IF i <= Len(levels) THEN levels[i] ELSE z[i - Len(levels)]
    BY <1>1, ConcatProperties, Zenon
  <2> QED
    BY <1>1, <2>1, <2>2
<1>4. \A i \in 1 .. Len(levels) + count : ~(i <= Len(levels)) => z[i - Len(levels)] = Zero
  BY <1>1, <1>3
<1> QED
  BY <1>2, <1>3, <1>4
-----------------------------------------------------------------------------
(***************************************************************************)
(* Every step preserves the inductive invariant.                           *)
(***************************************************************************)
LEMMA InitAInv == Init => AInv
<1> SUFFICES ASSUME Init
             PROVE  AInv
  OBVIOUS
<1>1. Owned = {} /\ Range(m_captureLevel) = {}
  <2>1. Range(<<>>) = {}
    BY DEF Range
  <2> QED
    BY <2>1 DEF Init, Owned
<1>2. OwnVector(<<>>, "ns", 0) /\ OwnVector(<<>>, "agc", 0) /\ OwnVector(<<>>, "rnn", 0)
  BY DEF OwnVector
<1>3. VectorsOwn
  BY <1>2 DEF Init, VectorsOwn
<1>4. TypeOK
  <2>1. {alive, m_doAgc, shifted, failed, overrun} \subseteq BOOLEAN
    BY Zenon DEF Init
  <2>2. capture_buffer \in [frames : Nat, channels : Counts \cup {0}]
    BY DEF Init, NoBuffer
  <2>3. inits \in 0 .. MaxInits /\ m_frequency \in Rates \cup {0}
        /\ m_channels \in Channels \cup {0} /\ ready \in {"none", "ns", "rnn"}
        /\ served \subseteq Handles \X Nat /\ live = {}
    BY MaxInitsAssumption DEF Init
  <2> QED
    BY <1>1, <2>1, <2>2, <2>3 DEF TypeOK
<1>5. Blank /\ IndicesInRange /\ BufferFits /\ OverrunNeedsOldBuffer
  BY <1>1 DEF Init, Blank, IndicesInRange, BufferFits, OverrunNeedsOldBuffer
<1>6. OwnsLive
  BY <1>1 DEF Init, OwnsLive
<1>7. ServedInPlace /\ OneChannelPerHandle
  BY DEF Init, ServedInPlace, ServedAt, OneChannelPerHandle
<1>8. LevelsOwn /\ LevelsOfChannel
  BY DEF Init, LevelsOwn, LevelsOfChannel
<1> QED
  BY <1>3, <1>4, <1>5, <1>6, <1>7, <1>8 DEF AInv

\* What an initialisation that got past its checks does to the vectors: each of
\* them is kept, replaced by new handles, or has new handles pushed behind.
Renewed(old, new, fresh, kind) ==
  /\ OwnVector(fresh, kind, inits + 1)
  /\ \A h \in Range(fresh) : h[2] = inits + 1
  /\ new \in {old, fresh, old \o fresh}

\* The vectors and what has been served, after an initialisation.
LEMMA RenewedVector ==
  ASSUME NEW old, NEW new, NEW fresh, NEW kind, inits \in Nat,
         OwnVector(old, kind, inits), Renewed(old, new, fresh, kind)
  PROVE  /\ OwnVector(new, kind, inits + 1)
         /\ Range(new) \subseteq Range(old) \cup Range(fresh)
         /\ \A i \in 1 .. Len(new) :
              new[i][2] = inits + 1 \/ (i \in 1 .. Len(old) /\ new[i] = old[i])
<1>1. OwnVector(old, kind, inits + 1)
  BY OwnLonger
<1>2. old \in Seq(Handles) /\ fresh \in Seq(Handles)
  BY DEF OwnVector, Renewed
<1>3. ASSUME NEW i \in 1 .. Len(fresh)
      PROVE  fresh[i][2] = inits + 1
  BY <1>2, InRange DEF Renewed
<1>4. CASE new = old
  BY <1>1, <1>4
<1>5. CASE new = fresh
  BY <1>3, <1>5 DEF Renewed
<1>6. CASE new = old \o fresh
  <2>1. OwnVector(new, kind, inits + 1)
    BY <1>6, OwnConcat DEF Renewed
  <2>2. Range(new) = Range(old) \cup Range(fresh)
    BY <1>2, <1>6, RangeConcatenation
  <2>3. /\ Len(new) = Len(old) + Len(fresh) /\ Len(old) \in Nat /\ Len(fresh) \in Nat
        /\ \A i \in 1 .. Len(new) : new[i] = IF i <= Len(old) THEN old[i]
                                             ELSE fresh[i - Len(old)]
    BY <1>2, <1>6, ConcatProperties
  <2>4. ASSUME NEW i \in 1 .. Len(new)
        PROVE  new[i][2] = inits + 1 \/ (i \in 1 .. Len(old) /\ new[i] = old[i])
    <3>1. CASE i <= Len(old)
      BY <2>3, <3>1
    <3>2. CASE ~(i <= Len(old))
      <4>1. i - Len(old) \in 1 .. Len(fresh) /\ new[i] = fresh[i - Len(old)]
        BY <2>3, <3>2
      <4> QED
        BY <1>3, <4>1
    <3> QED
      BY <3>1, <3>2
  <2> QED
    BY <2>1, <2>2, <2>4
<1> QED
  BY <1>4, <1>5, <1>6 DEF Renewed

\* A handle keeps its place, and a new one has served no channel.
LEMMA RenewedServed ==
  ASSUME AInv, NEW old, NEW new, NEW fresh, NEW kind,
         OwnVector(old, kind, inits), Renewed(old, new, fresh, kind), ServedAt(old)
  PROVE  ServedAt(new)
<1>0. inits \in Nat
  BY MaxInitsAssumption DEF AInv, TypeOK
<1> SUFFICES ASSUME NEW p \in served, NEW i \in 1 .. Len(new), p[1] = new[i]
             PROVE  p[2] = i - 1
  BY DEF ServedAt
<1>1. p[1][2] <= inits
  BY DEF AInv, ServedInPlace
<1>2. new[i][2] # inits + 1
  <2>1. p \in Handles \X Nat
    BY DEF AInv, TypeOK
  <2>2. p[1][2] \in 1 .. MaxInits
    BY <2>1, HandleParts
  <2> QED
    BY <1>0, <1>1, <2>2, MaxInitsAssumption
<1>3. i \in 1 .. Len(old) /\ new[i] = old[i]
  BY <1>0, <1>2, RenewedVector
<1> QED
  BY <1>3 DEF ServedAt

\* What both initialisations have in common.
InitShape(freshNs, freshAgc, freshRnn, dropped) ==
  /\ alive /\ alive' = alive
  /\ inits' = inits + 1 /\ inits < MaxInits
  /\ Renewed(m_nsHandles, m_nsHandles', freshNs, "ns")
  /\ Renewed(m_agcHandles, m_agcHandles', freshAgc, "agc")
  /\ Renewed(m_rnnoiseHandles, m_rnnoiseHandles', freshRnn, "rnn")
  /\ live' = live \cup Range(freshNs) \cup Range(freshAgc) \cup Range(freshRnn) \cup dropped
  /\ dropped \subseteq Handles
  /\ served' = served

\* An initialisation of either kind keeps the vectors, and what was served, in
\* order.
LEMMA InitHandles ==
  ASSUME AInv, NEW freshNs, NEW freshAgc, NEW freshRnn, NEW dropped,
         InitShape(freshNs, freshAgc, freshRnn, dropped)
  PROVE  /\ OwnVector(m_nsHandles', "ns", inits')
         /\ OwnVector(m_agcHandles', "agc", inits')
         /\ OwnVector(m_rnnoiseHandles', "rnn", inits')
         /\ inits' \in 0 .. MaxInits /\ inits \in Nat
         /\ Blank' /\ ServedInPlace' /\ OneChannelPerHandle'
         /\ Owned' \subseteq live'
         /\ Owned' \cup live' \subseteq Handles
<1>0. inits \in Nat /\ inits' \in 0 .. MaxInits /\ inits' = inits + 1
  BY MaxInitsAssumption DEF AInv, TypeOK, InitShape
<1>1. /\ OwnVector(m_nsHandles, "ns", inits) /\ OwnVector(m_agcHandles, "agc", inits)
      /\ OwnVector(m_rnnoiseHandles, "rnn", inits)
      /\ Owned \subseteq live /\ live \subseteq Handles
  BY DEF AInv, VectorsOwn, OwnsLive, InitShape, TypeOK
<1>2. /\ OwnVector(m_nsHandles', "ns", inits + 1)
      /\ Range(m_nsHandles') \subseteq Range(m_nsHandles) \cup Range(freshNs)
  BY <1>0, <1>1, RenewedVector DEF InitShape
<1>3. /\ OwnVector(m_agcHandles', "agc", inits + 1)
      /\ Range(m_agcHandles') \subseteq Range(m_agcHandles) \cup Range(freshAgc)
  BY <1>0, <1>1, RenewedVector DEF InitShape
<1>4. /\ OwnVector(m_rnnoiseHandles', "rnn", inits + 1)
      /\ Range(m_rnnoiseHandles') \subseteq Range(m_rnnoiseHandles) \cup Range(freshRnn)
  BY <1>0, <1>1, RenewedVector DEF InitShape
<1>5. Owned' \subseteq live'
  BY <1>1, <1>2, <1>3, <1>4 DEF Owned, InitShape
<1>6. live' \subseteq Handles
  <2>1. Range(freshNs) \subseteq Handles /\ Range(freshAgc) \subseteq Handles
        /\ Range(freshRnn) \subseteq Handles
    BY InRange DEF InitShape, Renewed, OwnVector
  <2> QED
    BY <1>1, <2>1 DEF InitShape
<1>7. /\ ServedAt(m_nsHandles) /\ ServedAt(m_agcHandles) /\ ServedAt(m_rnnoiseHandles)
      /\ \A p \in served : p[1][2] <= inits /\ p[1] \in Handles
  BY DEF AInv, ServedInPlace, TypeOK
<1>8. /\ \A p \in served : \A i \in 1 .. Len(m_nsHandles') :
           p[1] = m_nsHandles'[i] => p[2] = i - 1
      /\ \A p \in served : \A i \in 1 .. Len(m_agcHandles') :
           p[1] = m_agcHandles'[i] => p[2] = i - 1
      /\ \A p \in served : \A i \in 1 .. Len(m_rnnoiseHandles') :
           p[1] = m_rnnoiseHandles'[i] => p[2] = i - 1
  <2>1. ASSUME NEW old, NEW new, NEW fresh, NEW kind,
               OwnVector(old, kind, inits), Renewed(old, new, fresh, kind), ServedAt(old)
        PROVE  \A p \in served : \A i \in 1 .. Len(new) : p[1] = new[i] => p[2] = i - 1
    BY <2>1, RenewedServed DEF ServedAt
  <2> QED
    BY <1>1, <1>7, <2>1 DEF InitShape
<1>9. ASSUME NEW p \in served
      PROVE  p[1][2] <= inits + 1
  <2>1. p[1][2] \in 1 .. MaxInits /\ p[1][2] <= inits
    BY <1>7, HandleParts
  <2> QED
    BY <1>0, <2>1, MaxInitsAssumption
<1>10. served' = served
  BY DEF InitShape
<1>11. ServedInPlace'
  BY <1>0, <1>8, <1>9, <1>10 DEF ServedInPlace, ServedAt
<1>12. OneChannelPerHandle'
  BY <1>10 DEF AInv, OneChannelPerHandle
<1>13. Blank'
  BY <1>0 DEF Blank
<1> QED
  BY <1>0, <1>2, <1>3, <1>4, <1>5, <1>6, <1>11, <1>12, <1>13

\* Pushed levels are those there were, and Zero.
LEMMA LevelsPushedOfChannel ==
  ASSUME LevelsOfChannel, m_captureLevel \in Seq(Level), m_captureLevel' \in Seq(Level),
         served' = served,
         \A i \in 1 .. Len(m_captureLevel') :
           m_captureLevel'[i] = IF i <= Len(m_captureLevel) THEN m_captureLevel[i] ELSE Zero
  PROVE  LevelsOfChannel'
<1>1. /\ DOMAIN m_captureLevel' = 1 .. Len(m_captureLevel')
      /\ DOMAIN m_captureLevel = 1 .. Len(m_captureLevel)
      /\ Len(m_captureLevel) \in Nat /\ Len(m_captureLevel') \in Nat
  OBVIOUS
<1> SUFFICES ASSUME NEW i \in 1 .. Len(m_captureLevel'), m_captureLevel'[i] # Zero
             PROVE  <<m_captureLevel'[i], i - 1>> \in served
  BY <1>1 DEF LevelsOfChannel
<1>2. i \in 1 .. Len(m_captureLevel) /\ m_captureLevel'[i] = m_captureLevel[i]
  BY <1>1
<1> QED
  BY <1>1, <1>2 DEF LevelsOfChannel

\* The frames of a session fit into the buffer it has made.
LEMMA NewFits ==
  ASSUME NEW f \in Nat, NEW c \in Int, m_frequency' = f, m_channels' = c,
         capture_buffer' = NewBuffer(f, c)
  PROVE  Fits'
<1>1. capture_buffer'.channels = c /\ capture_buffer'.frames = f \div 100
  BY DEF NewBuffer
<1>2. f \in {32000, 48000} => f \div 100 \in {320, 480}
  OBVIOUS
<1>3. SplitRate' <=> f \in {32000, 48000}
  BY DEF SplitRate
<1> QED
  BY <1>1, <1>2, <1>3 DEF Fits

\* initNsModule
LEMMA InitNsStep ==
  ASSUME AInv, NEW f \in Rates, NEW c \in Channels, NEW agc \in BOOLEAN,
         initNsModule(f, c, agc)
  PROVE  AInv'
<1> USE ChannelsAssumption, RatesAssumption, MaxInitsAssumption
<1> DEFINE n == inits + 1
<1>0. /\ inits \in Nat /\ n \in 1 .. MaxInits /\ c >= 0 /\ c \in Nat /\ f \in Nat
      /\ alive /\ inits' = n /\ served' = served /\ overrun' = overrun /\ ~overrun
      /\ m_frequency' = f /\ m_channels' = c /\ m_doAgc' = agc /\ alive' = alive
      /\ m_rnnoiseHandles' = m_rnnoiseHandles
      /\ shifted' = (shifted \/ (agc /\ m_captureLevel # <<>>))
  BY DEF AInv, TypeOK, initNsModule, Valid
<1>1. PICK stop \in Stops(c, agc, NsFailures) :
        LET newNs == Created("ns", n, stop[1] - 1)
            newAgc == Created("agc", n, AgcCount(agc, stop))
        IN /\ m_nsHandles' = newNs
           /\ m_agcHandles' = IF agc THEN newAgc ELSE m_agcHandles
           /\ m_captureLevel' = LevelsPushed(m_captureLevel, Len(newAgc))
           /\ live' = live \cup Range(newNs) \cup Range(newAgc) \cup Dropped(n, stop)
           /\ IF stop[2] = "no"
                THEN /\ capture_buffer' = NewBuffer(f, c)
                     /\ ready' = "ns"
                     /\ failed' = failed
                ELSE /\ ready' = "none"
                     /\ failed' = TRUE
                     /\ capture_buffer' = capture_buffer
  BY DEF initNsModule, AfterClear
<1> DEFINE newNs == Created("ns", n, stop[1] - 1)
           newAgc == Created("agc", n, AgcCount(agc, stop))
<1>2. /\ stop[1] - 1 \in 0 .. c /\ AgcCount(agc, stop) \in 0 .. c
      /\ ~agc => AgcCount(agc, stop) = 0
      /\ stop[2] = "no" => /\ stop[1] - 1 = c /\ Dropped(n, stop) = {}
                           /\ agc => AgcCount(agc, stop) = c
      /\ Dropped(n, stop) \subseteq Handles
  <2>1. Begun(c) = c
    BY <1>0 DEF Begun
  <2>2. n \in 1 .. MaxInits /\ NsFailures \in {NsFailures, {}}
    BY <1>0
  <2> QED
    BY <2>1, <2>2, StopParts
<1>b. stop[1] - 1 \in 0 .. Begun(c) /\ AgcCount(agc, stop) \in 0 .. Begun(c)
  BY <1>0, <1>2 DEF Begun
<1>3. /\ newNs \in Seq(Handles) /\ Len(newNs) = stop[1] - 1
      /\ OwnVector(newNs, "ns", n) /\ \A h \in Range(newNs) : h[2] = n
  BY <1>0, <1>b, CreatedHandles DEF KindsOfHandle
<1>4. /\ newAgc \in Seq(Handles) /\ Len(newAgc) = AgcCount(agc, stop)
      /\ OwnVector(newAgc, "agc", n) /\ \A h \in Range(newAgc) : h[2] = n
  BY <1>0, <1>b, CreatedHandles DEF KindsOfHandle
<1>5. /\ m_nsHandles' = newNs
      /\ m_agcHandles' = IF agc THEN newAgc ELSE m_agcHandles
      /\ m_captureLevel' = LevelsPushed(m_captureLevel, Len(newAgc))
      /\ live' = live \cup Range(newNs) \cup Range(newAgc) \cup Dropped(n, stop)
  BY <1>1
<1>6. OwnVector(<<>>, "rnn", n) /\ Range(<<>>) = {}
  BY DEF OwnVector, Range
<1> DEFINE k == AgcCount(agc, stop)
<1>a. k \in 0 .. c /\ Len(newAgc) = k /\ (~agc => k = 0)
      /\ (stop[2] = "no" /\ agc => k = c)
  BY <1>2, <1>4
<1> HIDE DEF newNs, newAgc, k
<1>7. InitShape(newNs, newAgc, <<>>, Dropped(n, stop))
  BY <1>0, <1>2, <1>3, <1>4, <1>5, <1>6 DEF InitShape, Renewed
<1>8. /\ OwnVector(m_nsHandles', "ns", inits') /\ OwnVector(m_agcHandles', "agc", inits')
      /\ OwnVector(m_rnnoiseHandles', "rnn", inits') /\ inits' \in 0 .. MaxInits
      /\ Blank' /\ ServedInPlace' /\ OneChannelPerHandle'
      /\ Owned' \subseteq live' /\ Owned' \cup live' \subseteq Handles
  BY <1>7, InitHandles
<1>9. /\ m_captureLevel' \in Seq(Level) /\ m_captureLevel \in Seq(Level)
      /\ Len(m_captureLevel') = Len(m_captureLevel) + k
      /\ \A i \in 1 .. Len(m_captureLevel') :
           m_captureLevel'[i] = IF i <= Len(m_captureLevel) THEN m_captureLevel[i] ELSE Zero
  <2>1. m_captureLevel \in Seq(Level) /\ k \in Nat
    BY <1>0, <1>a DEF AInv, VectorsOwn, Level
  <2>2. m_captureLevel' = LevelsPushed(m_captureLevel, k)
    BY <1>5, <1>a
  <2> QED
    BY <2>1, <2>2, PushedLevels
<1>10. VectorsOwn'
  BY <1>8, <1>9 DEF VectorsOwn, Level
<1>11. TypeOK'
  <2>1. shifted' \in BOOLEAN /\ failed' \in BOOLEAN /\ alive' \in BOOLEAN
        /\ m_doAgc' \in BOOLEAN /\ overrun' \in BOOLEAN
    BY <1>0, <1>1, Zenon DEF AInv, TypeOK
  <2>2. Range(m_captureLevel') \subseteq {Zero} \cup Handles
    BY <1>9, InRange DEF Level
  <2>3. c \in Counts \cup {0} /\ f \div 100 \in Nat
    BY <1>0 DEF Counts
  <2>4. capture_buffer' \in [frames : Nat, channels : Counts \cup {0}]
    BY <1>1, <2>3 DEF AInv, TypeOK, NewBuffer
  <2>5. m_frequency' \in Rates \cup {0} /\ m_channels' \in Channels \cup {0}
        /\ ready' \in {"none", "ns", "rnn"}
    BY <1>0, <1>1
  <2>6. served' \subseteq Handles \X Nat
    BY <1>0 DEF AInv, TypeOK
  <2> QED
    BY <1>8, <2>1, <2>2, <2>4, <2>5, <2>6 DEF TypeOK
<1>12. IndicesInRange'
  <2>1. CASE stop[2] = "no"
    <3>1. ready' = "ns" /\ Len(m_nsHandles') = m_channels'
      BY <1>0, <1>1, <1>2, <1>3, <1>5, <2>1
    <3>2. agc => Len(m_agcHandles') >= c /\ Len(m_captureLevel') >= c
      <4>1. Len(m_captureLevel) \in Nat
        BY <1>9
      <4>2. agc => k = c /\ m_agcHandles' = newAgc
        BY <1>5, <1>a, <2>1
      <4>3. Len(newAgc) = k /\ Len(m_captureLevel') = Len(m_captureLevel) + k
        BY <1>9, <1>a
      <4> QED
        BY <1>0, <4>1, <4>2, <4>3
    <3> QED
      BY <1>0, <3>1, <3>2 DEF IndicesInRange
  <2>2. CASE stop[2] # "no"
    BY <1>1, <2>2 DEF IndicesInRange
  <2> QED
    BY <2>1, <2>2
<1>13. OwnsLive'
  <2>1. ASSUME inits' <= 1, ~failed'
        PROVE  live' \subseteq Owned'
    <3>1. inits = 0 /\ live = {}
      BY <1>0, <2>1 DEF AInv, Blank
    <3>2. stop[2] = "no"
      BY <1>1, <2>1
    <3>3. ~agc => newAgc = <<>> /\ Range(newAgc) = {}
      BY <1>4, <1>6, <1>a
    <3> QED
      BY <1>2, <1>5, <3>1, <3>2, <3>3 DEF Owned
  <2> QED
    BY <1>0, <1>8, <2>1 DEF OwnsLive
<1>14. LevelsOwn'
  <2> SUFFICES ASSUME ~shifted'
               PROVE  /\ Len(m_captureLevel') = Len(m_agcHandles')
                      /\ \A i \in DOMAIN m_captureLevel' :
                           m_captureLevel'[i] \in {Zero, m_agcHandles'[i]}
    BY DEF LevelsOwn
  <2>1. ~shifted /\ (agc => m_captureLevel = <<>>)
    BY <1>0
  <2>2. /\ Len(m_captureLevel) = Len(m_agcHandles)
        /\ \A i \in DOMAIN m_captureLevel : m_captureLevel[i] \in {Zero, m_agcHandles[i]}
    BY <2>1 DEF AInv, LevelsOwn
  <2>3. /\ DOMAIN m_captureLevel = 1 .. Len(m_captureLevel)
        /\ DOMAIN m_captureLevel' = 1 .. Len(m_captureLevel')
        /\ Len(m_captureLevel) \in Nat
    BY <1>9
  <2>4. CASE agc
    <3>1. Len(m_captureLevel) = 0
      BY <2>1, <2>4
    <3>2. Len(m_agcHandles') = k /\ k \in Nat
      BY <1>0, <1>5, <1>a, <2>4
    <3>3. Len(m_captureLevel') = k
      BY <1>9, <3>1, <3>2
    <3>4. \A i \in 1 .. Len(m_captureLevel') : m_captureLevel'[i] = Zero
      BY <1>9, <3>1
    <3> QED
      BY <2>3, <3>2, <3>3, <3>4
  <2>5. CASE ~agc
    BY <1>5, <1>9, <1>a, <2>2, <2>3, <2>5
  <2> QED
    BY <2>4, <2>5
<1>e. LevelsOfChannel'
  <2>1. LevelsOfChannel /\ m_captureLevel \in Seq(Level)
    BY DEF AInv, VectorsOwn, Level
  <2> QED
    BY <1>0, <1>9, <2>1, LevelsPushedOfChannel
<1>15. BufferFits' /\ OverrunNeedsOldBuffer'
  <2>1. OverrunNeedsOldBuffer'
    BY <1>0 DEF OverrunNeedsOldBuffer
  <2>2. CASE stop[2] = "no"
    <3>1. capture_buffer' = NewBuffer(f, c)
      BY <1>1, <2>2
    <3>2. Fits'
      BY <1>0, <3>1, NewFits
    <3> QED
      BY <2>1, <3>2 DEF BufferFits
  <2>3. CASE stop[2] # "no"
    BY <1>1, <2>1, <2>3 DEF BufferFits
  <2> QED
    BY <2>2, <2>3
<1> QED
  BY <1>8, <1>10, <1>11, <1>12, <1>13, <1>14, <1>15, <1>e DEF AInv

\* initRnnoiseModule
LEMMA InitRnnoiseStep ==
  ASSUME AInv, NEW f \in Rates, NEW c \in Channels, NEW agc \in BOOLEAN,
         initRnnoiseModule(f, c, agc)
  PROVE  AInv'
<1> USE ChannelsAssumption, RatesAssumption, MaxInitsAssumption
<1> DEFINE n == inits + 1
           d == Begun(c)
<1>0. /\ inits \in Nat /\ n \in 1 .. MaxInits /\ c \in Int /\ f \in Nat
      /\ alive /\ inits' = n /\ served' = served /\ overrun' = overrun /\ ~overrun
      /\ m_frequency' = f /\ m_channels' = c /\ m_doAgc' = agc /\ alive' = alive
      /\ m_nsHandles' = m_nsHandles /\ shifted' = shifted
      /\ capture_buffer = NoBuffer => ~(c < 0)
      /\ capture_buffer' = IF capture_buffer = NoBuffer
                             THEN NewBuffer(f, c) ELSE capture_buffer
  <2>1. /\ inits \in 0 .. MaxInits /\ inits < MaxInits /\ ~BufferThrows(c)
        /\ alive /\ inits' = n /\ served' = served /\ overrun' = overrun /\ ~overrun
        /\ m_frequency' = f /\ m_channels' = c /\ m_doAgc' = agc /\ alive' = alive
        /\ m_nsHandles' = m_nsHandles /\ shifted' = shifted
        /\ capture_buffer' = IF capture_buffer = NoBuffer
                               THEN NewBuffer(f, c) ELSE capture_buffer
    BY DEF AInv, TypeOK, initRnnoiseModule
  <2>2. inits \in Nat /\ n \in 1 .. MaxInits
    BY <2>1
  <2>3. capture_buffer = NoBuffer => ~(c < 0)
    BY <2>1 DEF BufferThrows
  <2> QED
    BY <2>1, <2>2, <2>3
<1>f. d \in Nat /\ c <= d /\ (~(c < 0) => c = d)
  BY <1>0 DEF Begun
<1>1. PICK stop \in Stops(c, agc, {}) :
        LET newRnn == Created("rnn", n, stop[1] - 1)
            newAgc == Created("agc", n, AgcCount(agc, stop))
        IN /\ m_rnnoiseHandles' = m_rnnoiseHandles \o newRnn
           /\ m_agcHandles' = m_agcHandles \o newAgc
           /\ m_captureLevel' = LevelsPushed(m_captureLevel, Len(newAgc))
           /\ live' = live \cup Range(newRnn) \cup Range(newAgc) \cup Dropped(n, stop)
           /\ ready' = IF stop[2] = "no" THEN "rnn" ELSE "none"
           /\ failed' = (failed \/ stop[2] # "no")
  BY PTL DEF initRnnoiseModule
<1> DEFINE newRnn == Created("rnn", n, stop[1] - 1)
           newAgc == Created("agc", n, AgcCount(agc, stop))
<1>2. /\ stop[1] - 1 \in 0 .. d /\ AgcCount(agc, stop) \in 0 .. d
      /\ ~agc => AgcCount(agc, stop) = 0
      /\ stop[2] = "no" => /\ stop[1] - 1 = d /\ Dropped(n, stop) = {}
                           /\ agc => AgcCount(agc, stop) = d
      /\ Dropped(n, stop) \subseteq Handles
  <2>1. {} \in {NsFailures, {}}
    OBVIOUS
  <2> QED
    BY <1>0, <2>1, StopParts, Zenon
<1>3. /\ newRnn \in Seq(Handles) /\ Len(newRnn) = stop[1] - 1
      /\ OwnVector(newRnn, "rnn", n) /\ \A h \in Range(newRnn) : h[2] = n
  BY <1>0, <1>2, CreatedHandles DEF KindsOfHandle
<1>4. /\ newAgc \in Seq(Handles) /\ Len(newAgc) = AgcCount(agc, stop)
      /\ OwnVector(newAgc, "agc", n) /\ \A h \in Range(newAgc) : h[2] = n
  BY <1>0, <1>2, CreatedHandles DEF KindsOfHandle
<1>5. /\ m_rnnoiseHandles' = m_rnnoiseHandles \o newRnn
      /\ m_agcHandles' = m_agcHandles \o newAgc
      /\ m_captureLevel' = LevelsPushed(m_captureLevel, Len(newAgc))
      /\ live' = live \cup Range(newRnn) \cup Range(newAgc) \cup Dropped(n, stop)
  BY <1>1
<1>6. OwnVector(<<>>, "ns", n) /\ Range(<<>>) = {}
  BY DEF OwnVector, Range
<1> DEFINE k == AgcCount(agc, stop)
<1>a. k \in 0 .. d /\ Len(newAgc) = k /\ (~agc => k = 0)
      /\ (stop[2] = "no" /\ agc => k = d)
  BY <1>2, <1>4
<1> HIDE DEF newRnn, newAgc, k, d
<1>7. InitShape(<<>>, newAgc, newRnn, Dropped(n, stop))
  BY <1>0, <1>2, <1>3, <1>4, <1>5, <1>6 DEF InitShape, Renewed
<1>8. /\ OwnVector(m_nsHandles', "ns", inits') /\ OwnVector(m_agcHandles', "agc", inits')
      /\ OwnVector(m_rnnoiseHandles', "rnn", inits') /\ inits' \in 0 .. MaxInits
      /\ Blank' /\ ServedInPlace' /\ OneChannelPerHandle'
      /\ Owned' \subseteq live' /\ Owned' \cup live' \subseteq Handles
  BY <1>7, InitHandles
<1>9. /\ m_captureLevel' \in Seq(Level) /\ m_captureLevel \in Seq(Level)
      /\ Len(m_captureLevel') = Len(m_captureLevel) + k
      /\ \A i \in 1 .. Len(m_captureLevel') :
           m_captureLevel'[i] = IF i <= Len(m_captureLevel) THEN m_captureLevel[i] ELSE Zero
  <2>1. m_captureLevel \in Seq(Level) /\ k \in Nat
    BY <1>f, <1>a DEF AInv, VectorsOwn, Level
  <2>2. m_captureLevel' = LevelsPushed(m_captureLevel, k)
    BY <1>5, <1>a
  <2> QED
    BY <2>1, <2>2, PushedLevels
<1>10. VectorsOwn'
  BY <1>8, <1>9 DEF VectorsOwn, Level
<1>b. m_agcHandles \in Seq(Handles) /\ m_rnnoiseHandles \in Seq(Handles)
  BY DEF AInv, VectorsOwn, OwnVector
<1>c. /\ Len(m_agcHandles) \in Nat /\ Len(m_agcHandles') = Len(m_agcHandles) + k
      /\ \A i \in 1 .. Len(m_agcHandles) : m_agcHandles'[i] = m_agcHandles[i]
      /\ Range(m_agcHandles') = Range(m_agcHandles) \cup Range(newAgc)
  <2>1. Len(m_agcHandles) \in Nat /\ Len(newAgc) \in Nat
    BY <1>4, <1>b
  <2>2. /\ Len(m_agcHandles') = Len(m_agcHandles) + Len(newAgc)
        /\ \A i \in 1 .. Len(m_agcHandles) + Len(newAgc) : m_agcHandles'[i] =
             IF i <= Len(m_agcHandles) THEN m_agcHandles[i] ELSE newAgc[i - Len(m_agcHandles)]
    BY <1>4, <1>5, <1>b, ConcatProperties
  <2>3. \A i \in 1 .. Len(m_agcHandles) : i \in 1 .. Len(m_agcHandles) + Len(newAgc)
    BY <2>1
  <2>4. \A i \in 1 .. Len(m_agcHandles) : m_agcHandles'[i] = m_agcHandles[i]
    BY <2>1, <2>2, <2>3
  <2>5. Range(m_agcHandles') = Range(m_agcHandles) \cup Range(newAgc)
    BY <1>4, <1>5, <1>b, RangeConcatenation
  <2> QED
    BY <1>a, <2>1, <2>2, <2>4, <2>5
<1>d. /\ Len(m_rnnoiseHandles) \in Nat
      /\ Len(m_rnnoiseHandles') = Len(m_rnnoiseHandles) + (stop[1] - 1)
      /\ Range(m_rnnoiseHandles') = Range(m_rnnoiseHandles) \cup Range(newRnn)
  <2>1. Len(m_rnnoiseHandles) \in Nat
    BY <1>b
  <2>2. Len(m_rnnoiseHandles') = Len(m_rnnoiseHandles) + Len(newRnn)
    BY <1>3, <1>5, <1>b, ConcatProperties
  <2>3. Range(m_rnnoiseHandles') = Range(m_rnnoiseHandles) \cup Range(newRnn)
    BY <1>3, <1>5, <1>b, RangeConcatenation
  <2> QED
    BY <1>3, <2>1, <2>2, <2>3
<1>11. TypeOK'
  <2>1. shifted' \in BOOLEAN /\ alive' \in BOOLEAN /\ failed' \in BOOLEAN
        /\ m_doAgc' \in BOOLEAN /\ overrun' \in BOOLEAN
    BY <1>0, <1>1, Zenon DEF AInv, TypeOK
  <2>2. Range(m_captureLevel') \subseteq {Zero} \cup Handles
    BY <1>9, InRange DEF Level
  <2>3. (~(c < 0) => c \in Counts \cup {0}) /\ f \div 100 \in Nat
    BY <1>0 DEF Counts
  <2>4. capture_buffer' \in [frames : Nat, channels : Counts \cup {0}]
    BY <1>0, <2>3 DEF AInv, TypeOK, NewBuffer
  <2>5. m_frequency' \in Rates \cup {0} /\ m_channels' \in Channels \cup {0}
        /\ ready' \in {"none", "ns", "rnn"}
    BY <1>0, <1>1
  <2>6. served' \subseteq Handles \X Nat
    BY <1>0 DEF AInv, TypeOK
  <2> QED
    BY <1>8, <2>1, <2>2, <2>4, <2>5, <2>6 DEF TypeOK
<1>12. IndicesInRange'
  <2>1. CASE stop[2] = "no"
    <3>1. ready' = "rnn" /\ Len(m_rnnoiseHandles') >= m_channels'
      BY <1>0, <1>1, <1>2, <1>d, <1>f, <2>1
    <3>2. agc => Len(m_agcHandles') >= c /\ Len(m_captureLevel') >= c
      <4>1. Len(m_captureLevel) \in Nat
        BY <1>9
      <4>2. agc => k = d
        BY <1>a, <2>1
      <4>3. Len(m_captureLevel') = Len(m_captureLevel) + k
        BY <1>9
      <4> QED
        BY <1>0, <1>c, <1>f, <4>1, <4>2, <4>3
    <3> QED
      BY <1>0, <3>1, <3>2 DEF IndicesInRange
  <2>2. CASE stop[2] # "no"
    BY <1>1, <2>2 DEF IndicesInRange
  <2> QED
    BY <2>1, <2>2
<1>13. OwnsLive'
  <2>1. ASSUME inits' <= 1, ~failed'
        PROVE  live' \subseteq Owned'
    <3>1. inits = 0 /\ live = {}
      BY <1>0, <2>1 DEF AInv, Blank
    <3>2. stop[2] = "no"
      BY <1>1, <2>1
    <3> QED
      BY <1>2, <1>5, <1>c, <1>d, <3>1, <3>2 DEF Owned
  <2> QED
    BY <1>0, <1>8, <2>1 DEF OwnsLive
<1>14. LevelsOwn'
  <2> SUFFICES ASSUME ~shifted'
               PROVE  /\ Len(m_captureLevel') = Len(m_agcHandles')
                      /\ \A i \in DOMAIN m_captureLevel' :
                           m_captureLevel'[i] \in {Zero, m_agcHandles'[i]}
    BY DEF LevelsOwn
  <2>1. /\ Len(m_captureLevel) = Len(m_agcHandles)
        /\ \A i \in DOMAIN m_captureLevel : m_captureLevel[i] \in {Zero, m_agcHandles[i]}
    BY <1>0 DEF AInv, LevelsOwn
  <2>2. /\ DOMAIN m_captureLevel = 1 .. Len(m_captureLevel)
        /\ DOMAIN m_captureLevel' = 1 .. Len(m_captureLevel')
        /\ Len(m_captureLevel) \in Nat
    BY <1>9
  <2>3. Len(m_captureLevel') = Len(m_agcHandles')
    BY <1>9, <1>c, <2>1
  <2>4. ASSUME NEW i \in 1 .. Len(m_captureLevel')
        PROVE  m_captureLevel'[i] \in {Zero, m_agcHandles'[i]}
    <3>1. CASE i <= Len(m_captureLevel)
      <4>1. i \in 1 .. Len(m_captureLevel) /\ i \in 1 .. Len(m_agcHandles)
        BY <2>1, <2>2, <3>1
      <4>2. m_captureLevel'[i] = m_captureLevel[i] /\ m_agcHandles'[i] = m_agcHandles[i]
        BY <1>9, <1>c, <3>1, <4>1
      <4> QED
        BY <2>1, <2>2, <4>1, <4>2
    <3>2. CASE ~(i <= Len(m_captureLevel))
      BY <1>9, <3>2
    <3> QED
      BY <3>1, <3>2
  <2> QED
    BY <2>2, <2>3, <2>4
<1>e. LevelsOfChannel'
  <2>1. LevelsOfChannel /\ m_captureLevel \in Seq(Level)
    BY DEF AInv, VectorsOwn, Level
  <2> QED
    BY <1>0, <1>9, <2>1, LevelsPushedOfChannel
<1>15. BufferFits' /\ OverrunNeedsOldBuffer'
  <2>1. OverrunNeedsOldBuffer'
    BY <1>0 DEF OverrunNeedsOldBuffer
  <2>2. inits' <= 1 => capture_buffer' = NewBuffer(f, c)
    BY <1>0 DEF AInv, Blank
  <2>3. ready' # "ns"
    BY <1>1
  <2>4. inits' <= 1 => Fits'
    BY <1>0, <2>2, NewFits
  <2> QED
    BY <2>1, <2>3, <2>4 DEF BufferFits
<1> QED
  BY <1>8, <1>10, <1>11, <1>12, <1>13, <1>14, <1>15, <1>e DEF AInv

\* What both processing functions do to the state but for the samples: levels
\* are kept, and each channel is served by the handle at its place.
ProcessShape(handles) ==
  /\ alive /\ ~overrun
  /\ m_captureLevel' = LevelsAfter
  /\ served' = served \cup Used(handles) \cup IF m_doAgc THEN Used(m_agcHandles) ELSE {}
  /\ UNCHANGED <<alive, vectors, capture_buffer, config, ready,
                 inits, live, shifted, failed, overrun>>

\* Both processing functions have that shape.
LEMMA ProcessShapes ==
  ASSUME NEW n \in Samples
  PROVE  /\ processCaptureStream(n) => ready = "ns" /\ ProcessShape(m_nsHandles)
         /\ processUseRnnoise(n) => ready = "rnn" /\ ProcessShape(m_rnnoiseHandles)
<1>1. processCaptureStream(n) => ready = "ns" /\ ProcessShape(m_nsHandles)
  BY PTL DEF processCaptureStream, ProcessShape
<1>2. processUseRnnoise(n) => ready = "rnn" /\ ProcessShape(m_rnnoiseHandles)
  BY PTL DEF processUseRnnoise, ProcessShape
<1> QED
  BY <1>1, <1>2

\* The pairs that a frame adds to served: a handle and its place in a vector.
Places(v) == {<<v[i], i - 1>> : i \in 1 .. Len(v)}
AllPlaces == Places(m_nsHandles) \cup Places(m_agcHandles) \cup Places(m_rnnoiseHandles)

\* What a frame uses of a vector that is long enough.
LEMMA UsedPlaces ==
  ASSUME NEW S, NEW v \in Seq(S), m_channels \in Int, m_channels <= Len(v)
  PROVE  Used(v) \subseteq Places(v)
<1> SUFFICES ASSUME NEW ch \in 0 .. m_channels - 1
             PROVE  <<HandleOf(v, ch), ch>> \in Places(v)
  BY DEF Used
<1>1. Len(v) \in Nat
  OBVIOUS
<1>2. ch + 1 \in 1 .. Len(v) /\ ch = (ch + 1) - 1
  BY <1>1
<1>3. <<v[ch + 1], (ch + 1) - 1>> \in Places(v)
  BY <1>2 DEF Places
<1> QED
  BY <1>2, <1>3 DEF HandleOf

\* A handle has one place in all the vectors together.
LEMMA OnePlace ==
  ASSUME VectorsOwn
  PROVE  /\ \A p, q \in AllPlaces : p[1] = q[1] => p[2] = q[2]
         /\ \A p \in AllPlaces : /\ p \in Handles \X Nat
                                 /\ p[1][2] <= inits
<1> DEFINE V == {<<m_nsHandles, "ns">>, <<m_agcHandles, "agc">>, <<m_rnnoiseHandles, "rnn">>}
<1>1. ASSUME NEW x \in V
      PROVE  OwnVector(x[1], x[2], inits)
  BY <1>1 DEF VectorsOwn
<1>2. ASSUME NEW p \in AllPlaces
      PROVE  \E x \in V : \E i \in 1 .. Len(x[1]) : p = <<x[1][i], i - 1>>
  BY <1>2 DEF AllPlaces, Places
<1>3. ASSUME NEW x \in V, NEW i \in 1 .. Len(x[1])
      PROVE  x[1][i] \in Handles /\ x[1][i][1] = x[2] /\ x[1][i][2] <= inits /\ i - 1 \in Nat
  BY <1>1 DEF OwnVector
<1>4. ASSUME NEW p \in AllPlaces
      PROVE  p \in Handles \X Nat /\ p[1][2] <= inits
  BY <1>2, <1>3
<1>5. ASSUME NEW p \in AllPlaces, NEW q \in AllPlaces, p[1] = q[1]
      PROVE  p[2] = q[2]
  <2>1. PICK x \in V, i \in 1 .. Len(m_nsHandles) \cup 1 .. Len(m_agcHandles)
                              \cup 1 .. Len(m_rnnoiseHandles) :
          i \in 1 .. Len(x[1]) /\ p = <<x[1][i], i - 1>>
    BY <1>2
  <2>2. PICK y \in V, j \in 1 .. Len(m_nsHandles) \cup 1 .. Len(m_agcHandles)
                              \cup 1 .. Len(m_rnnoiseHandles) :
          j \in 1 .. Len(y[1]) /\ q = <<y[1][j], j - 1>>
    BY <1>2
  <2>3. x[1][i] = y[1][j] /\ x[2] = y[2]
    BY <1>3, <1>5, <2>1, <2>2
  <2>4. x[1] = y[1]
    BY <2>3
  <2>5. i = j
    BY <1>1, <2>1, <2>2, <2>3, <2>4 DEF OwnVector
  <2> QED
    BY <2>1, <2>2, <2>5
<1> QED
  BY <1>4, <1>5

\* Serving each channel with the handle at its place keeps every handle on one
\* channel.
LEMMA ServedStep ==
  ASSUME AInv, served' \subseteq served \cup AllPlaces, UNCHANGED <<vectors, inits>>
  PROVE  ServedInPlace' /\ OneChannelPerHandle' /\ served' \subseteq Handles \X Nat
<1>1. VectorsOwn
  BY DEF AInv
<1>2. m_nsHandles' = m_nsHandles /\ m_agcHandles' = m_agcHandles
      /\ m_rnnoiseHandles' = m_rnnoiseHandles /\ inits' = inits
  BY DEF vectors
<1>3. ASSUME NEW p \in served', NEW q \in AllPlaces, p[1] = q[1]
      PROVE  p[2] = q[2]
  <2>1. CASE p \in AllPlaces
    BY <1>1, <1>3, <2>1, OnePlace
  <2>2. CASE p \in served
    <3>1. ServedAt(m_nsHandles) /\ ServedAt(m_agcHandles) /\ ServedAt(m_rnnoiseHandles)
      BY DEF AInv, ServedInPlace
    <3> QED
      BY <1>3, <2>2, <3>1 DEF ServedAt, AllPlaces, Places
  <2> QED
    BY <2>1, <2>2
<1>4. ASSUME NEW p \in served'
      PROVE  p \in Handles \X Nat /\ p[1][2] <= inits
  BY <1>1, OnePlace DEF AInv, TypeOK, ServedInPlace
<1>5. ASSUME NEW p \in served', NEW q \in served', p[1] = q[1]
      PROVE  p[2] = q[2]
  <2>1. CASE p \in AllPlaces \/ q \in AllPlaces
    BY <1>3, <1>5, <2>1
  <2>2. CASE p \in served /\ q \in served
    BY <1>5, <2>2 DEF AInv, OneChannelPerHandle
  <2> QED
    BY <2>1, <2>2
<1>6. ASSUME NEW v, NEW p \in served', NEW i \in 1 .. Len(v), Places(v) \subseteq AllPlaces,
             p[1] = v[i]
      PROVE  p[2] = i - 1
  <2>1. <<v[i], i - 1>> \in AllPlaces
    BY <1>6 DEF Places
  <2> QED
    BY <1>3, <1>6, <2>1
<1>7. /\ Places(m_nsHandles) \subseteq AllPlaces /\ Places(m_agcHandles) \subseteq AllPlaces
      /\ Places(m_rnnoiseHandles) \subseteq AllPlaces
  BY DEF AllPlaces
<1>8. ServedInPlace'
  BY <1>2, <1>4, <1>6, <1>7 DEF ServedInPlace, ServedAt
<1>9. OneChannelPerHandle'
  BY <1>5 DEF OneChannelPerHandle
<1> QED
  BY <1>4, <1>8, <1>9

\* processCaptureStream and processUseRnnoise
LEMMA ProcessStep ==
  ASSUME AInv, NEW n \in Samples, processCaptureStream(n) \/ processUseRnnoise(n)
  PROVE  AInv'
<1> USE ChannelsAssumption
<1>1. PICK handles \in {m_nsHandles, m_rnnoiseHandles} :
        /\ ready # "none"
        /\ handles = IF ready = "ns" THEN m_nsHandles ELSE m_rnnoiseHandles
        /\ ProcessShape(handles)
  BY ProcessShapes
<1>2. /\ UNCHANGED <<alive, m_nsHandles, m_agcHandles, m_rnnoiseHandles, capture_buffer,
                     m_frequency, m_channels, m_doAgc, ready, inits, live, shifted,
                     failed, overrun>>
      /\ m_captureLevel' = LevelsAfter /\ alive /\ ~overrun
      /\ served' = served \cup Used(handles) \cup IF m_doAgc THEN Used(m_agcHandles) ELSE {}
  BY <1>1 DEF ProcessShape, vectors, config
<1>3. /\ m_nsHandles \in Seq(Handles) /\ m_agcHandles \in Seq(Handles)
      /\ m_rnnoiseHandles \in Seq(Handles) /\ m_captureLevel \in Seq(Level)
      /\ m_channels \in Int
  BY DEF AInv, VectorsOwn, OwnVector, Level, TypeOK
<1>4. m_channels <= Len(handles) /\ (m_doAgc => m_channels <= Len(m_agcHandles))
      /\ handles \in Seq(Handles)
  <2>1. Len(m_nsHandles) \in Nat /\ Len(m_rnnoiseHandles) \in Nat /\ Len(m_agcHandles) \in Nat
    BY <1>3
  <2>2. ready = "ns" \/ ready = "rnn"
    BY <1>1 DEF AInv, TypeOK
  <2>3. /\ ready = "ns" => Len(m_nsHandles) = m_channels
        /\ ready = "rnn" => Len(m_rnnoiseHandles) >= m_channels
        /\ m_doAgc => Len(m_agcHandles) >= m_channels
    BY <1>1 DEF AInv, IndicesInRange
  <2> QED
    BY <1>1, <1>3, <2>1, <2>2, <2>3
<1>5. served' \subseteq served \cup AllPlaces
  <2>1. Used(handles) \subseteq Places(handles)
    BY <1>3, <1>4, UsedPlaces
  <2>2. m_doAgc => Used(m_agcHandles) \subseteq Places(m_agcHandles)
    BY <1>3, <1>4, UsedPlaces
  <2> QED
    BY <1>1, <1>2, <2>1, <2>2 DEF AllPlaces
<1>6. ServedInPlace' /\ OneChannelPerHandle' /\ served' \subseteq Handles \X Nat
  BY <1>2, <1>5, ServedStep DEF vectors
<1>7. /\ m_captureLevel' \in Seq(Level) /\ Len(m_captureLevel') = Len(m_captureLevel)
      /\ \A i \in 1 .. Len(m_captureLevel) :
           m_captureLevel'[i] = IF m_doAgc /\ i <= m_channels THEN m_agcHandles[i]
                                ELSE m_captureLevel[i]
  <2> DEFINE L(i) == IF m_doAgc /\ i <= m_channels THEN m_agcHandles[i] ELSE m_captureLevel[i]
  <2>1. DOMAIN m_captureLevel = 1 .. Len(m_captureLevel) /\ Len(m_captureLevel) \in Nat
    BY <1>3
  <2>2. \A i \in 1 .. Len(m_captureLevel) : (i - 1) + 1 = i
    BY <2>1
  <2>3. m_captureLevel' = [i \in 1 .. Len(m_captureLevel) |-> L(i)]
    BY <1>2, <2>1, <2>2 DEF LevelsAfter, HandleOf
  <2>4. ASSUME NEW i \in 1 .. Len(m_captureLevel)
        PROVE  L(i) \in Level
    <3>1. CASE m_doAgc /\ i <= m_channels
      <4>1. i \in 1 .. Len(m_agcHandles)
        BY <1>3, <1>4, <2>1, <3>1
      <4> QED
        BY <1>3, <3>1, <4>1 DEF Level
    <3>2. CASE ~(m_doAgc /\ i <= m_channels)
      BY <1>3, <3>2
    <3> QED
      BY <3>1, <3>2
  <2> HIDE DEF L
  <2>5. /\ m_captureLevel' \in Seq(Level) /\ Len(m_captureLevel') = Len(m_captureLevel)
        /\ \A i \in 1 .. Len(m_captureLevel) : m_captureLevel'[i] = L(i)
    BY <2>1, <2>3, <2>4
  <2> QED
    BY <2>5 DEF L
<1>8. VectorsOwn'
  BY <1>2, <1>7 DEF AInv, VectorsOwn, Level
<1>9. TypeOK'
  <2>1. Range(m_captureLevel') \subseteq {Zero} \cup Handles
    BY <1>7, InRange DEF Level
  <2>2. Owned' = Owned
    BY <1>2 DEF Owned
  <2> QED
    BY <1>2, <1>6, <2>1, <2>2 DEF AInv, TypeOK
<1>10. Blank'
  BY <1>1, <1>2 DEF AInv, Blank
<1>11. IndicesInRange'
  BY <1>2, <1>7 DEF AInv, IndicesInRange
<1>12. OwnsLive'
  BY <1>2 DEF AInv, OwnsLive, Owned
<1>13. LevelsOwn' /\ LevelsOfChannel'
  <2>1. DOMAIN m_captureLevel = 1 .. Len(m_captureLevel)
        /\ DOMAIN m_captureLevel' = 1 .. Len(m_captureLevel)
    BY <1>3, <1>7
  <2>2. LevelsOwn'
    BY <1>2, <1>7, <2>1 DEF AInv, LevelsOwn
  <2>3. ASSUME NEW i \in 1 .. Len(m_captureLevel), m_captureLevel'[i] # Zero
        PROVE  <<m_captureLevel'[i], i - 1>> \in served'
    <3>1. CASE m_doAgc /\ i <= m_channels
      <4>1. i - 1 \in 0 .. m_channels - 1 /\ (i - 1) + 1 = i /\ Len(m_captureLevel) \in Nat
        BY <1>3, <3>1
      <4>2. <<HandleOf(m_agcHandles, i - 1), i - 1>> \in Used(m_agcHandles)
        BY <4>1 DEF Used
      <4>3. HandleOf(m_agcHandles, i - 1) = m_agcHandles[i]
        BY <4>1 DEF HandleOf
      <4> QED
        BY <1>2, <1>7, <3>1, <4>2, <4>3
    <3>2. CASE ~(m_doAgc /\ i <= m_channels)
      <4>1. m_captureLevel'[i] = m_captureLevel[i]
        BY <1>7, <3>2
      <4> QED
        BY <1>2, <2>1, <2>3, <4>1 DEF AInv, LevelsOfChannel
    <3> QED
      BY <3>1, <3>2
  <2> QED
    BY <2>1, <2>2, <2>3 DEF LevelsOfChannel
<1>14. BufferFits' /\ OverrunNeedsOldBuffer'
  BY <1>2 DEF AInv, BufferFits, Fits, SplitRate, OverrunNeedsOldBuffer
<1> QED
  BY <1>6, <1>8, <1>9, <1>10, <1>11, <1>12, <1>13, <1>14 DEF AInv

\* A step that changes nothing the invariant is about but the settings, when no
\* session is left that relies on them.
LEMMA RefusedStep ==
  ASSUME AInv, NEW f \in Rates, NEW c \in Channels, NEW agc \in BOOLEAN,
         InitNsRefused(f, c, agc)
  PROVE  AInv'
<1>1. /\ UNCHANGED <<alive, m_nsHandles, m_agcHandles, m_rnnoiseHandles, m_captureLevel,
                     capture_buffer, inits, live, served, shifted, failed, overrun>>
      /\ m_frequency' = f /\ m_channels' = c /\ m_doAgc' = agc /\ ready' = "none"
      /\ ~overrun
  BY DEF InitNsRefused, vectors
<1>2. Owned' = Owned
  BY <1>1 DEF Owned
<1>3. TypeOK'
  <2>1. {alive', m_doAgc', shifted', failed', overrun'} \subseteq BOOLEAN
    BY <1>1, Zenon DEF AInv, TypeOK
  <2> QED
    BY <1>1, <1>2, <2>1 DEF AInv, TypeOK
<1>4. VectorsOwn'
  BY <1>1 DEF AInv, VectorsOwn
<1>5. Blank'
  BY <1>1, <1>2 DEF AInv, Blank
<1>6. IndicesInRange' /\ BufferFits'
  BY <1>1 DEF IndicesInRange, BufferFits
<1>7. OwnsLive'
  BY <1>1, <1>2 DEF AInv, OwnsLive
<1>8. ServedInPlace' /\ OneChannelPerHandle'
  BY <1>1 DEF AInv, ServedInPlace, ServedAt, OneChannelPerHandle
<1>9. LevelsOwn' /\ LevelsOfChannel'
  BY <1>1 DEF AInv, LevelsOwn, LevelsOfChannel
<1>10. OverrunNeedsOldBuffer'
  BY <1>1 DEF OverrunNeedsOldBuffer
<1> QED
  BY <1>3, <1>4, <1>5, <1>6, <1>7, <1>8, <1>9, <1>10 DEF AInv

\* Only a buffer kept by initRnnoiseModule can be too small.
LEMMA OverrunStep ==
  ASSUME AInv, ProcessOverruns
  PROVE  AInv'
<1>1. /\ UNCHANGED <<alive, m_nsHandles, m_agcHandles, m_rnnoiseHandles, m_captureLevel,
                     capture_buffer, m_frequency, m_channels, m_doAgc, ready, inits, live,
                     served, shifted, failed>>
      /\ overrun' = TRUE /\ ready # "none" /\ ~Fits
  BY DEF ProcessOverruns, vectors, config
<1>2. Owned' = Owned
  BY <1>1 DEF Owned
<1>3. TypeOK'
  <2>1. {alive', m_doAgc', shifted', failed', overrun'} \subseteq BOOLEAN
    BY <1>1, Zenon DEF AInv, TypeOK
  <2> QED
    BY <1>1, <1>2, <2>1 DEF AInv, TypeOK
<1>4. VectorsOwn'
  BY <1>1 DEF AInv, VectorsOwn
<1>5. Blank' /\ IndicesInRange'
  BY <1>1, <1>2 DEF AInv, Blank, IndicesInRange
<1>6. OwnsLive'
  BY <1>1, <1>2 DEF AInv, OwnsLive
<1>7. ServedInPlace' /\ OneChannelPerHandle'
  BY <1>1 DEF AInv, ServedInPlace, ServedAt, OneChannelPerHandle
<1>8. LevelsOwn' /\ LevelsOfChannel'
  BY <1>1 DEF AInv, LevelsOwn, LevelsOfChannel
<1>9. BufferFits'
  BY <1>1 DEF AInv, BufferFits, Fits, SplitRate
<1>10. OverrunNeedsOldBuffer'
  <2>1. ready = "rnn" /\ ~(inits <= 1) /\ inits \in Nat
    BY <1>1, MaxInitsAssumption DEF AInv, TypeOK, BufferFits
  <2> QED
    BY <1>1, <2>1 DEF OverrunNeedsOldBuffer
<1> QED
  BY <1>3, <1>4, <1>5, <1>6, <1>7, <1>8, <1>9, <1>10 DEF AInv

\* The destructor frees what the vectors hold.
LEMMA DestroyStep ==
  ASSUME AInv, Destroy
  PROVE  AInv'
<1>1. /\ UNCHANGED <<m_nsHandles, m_agcHandles, m_rnnoiseHandles, m_captureLevel,
                     capture_buffer, m_frequency, m_channels, m_doAgc, ready, inits,
                     served, shifted, failed, overrun>>
      /\ alive /\ alive' = FALSE /\ live' = live \ Owned
  BY DEF Destroy, Freed, vectors, config
<1>2. Owned' = Owned
  BY <1>1 DEF Owned
<1>3. TypeOK'
  <2>1. {alive', m_doAgc', shifted', failed', overrun'} \subseteq BOOLEAN
    BY <1>1, Zenon DEF AInv, TypeOK
  <2> QED
    BY <1>1, <1>2, <2>1 DEF AInv, TypeOK
<1>4. VectorsOwn'
  BY <1>1 DEF AInv, VectorsOwn
<1>5. Blank' /\ IndicesInRange'
  BY <1>1, <1>2 DEF AInv, Blank, IndicesInRange
<1>6. OwnsLive'
  <2>1. inits <= 1 /\ ~failed => live' = {}
    BY <1>1 DEF AInv, OwnsLive
  <2> QED
    BY <1>1, <2>1 DEF OwnsLive
<1>7. ServedInPlace' /\ OneChannelPerHandle'
  BY <1>1 DEF AInv, ServedInPlace, ServedAt, OneChannelPerHandle
<1>8. LevelsOwn' /\ LevelsOfChannel'
  BY <1>1 DEF AInv, LevelsOwn, LevelsOfChannel
<1>9. BufferFits' /\ OverrunNeedsOldBuffer'
  BY <1>1 DEF AInv, BufferFits, Fits, SplitRate, OverrunNeedsOldBuffer
<1> QED
  BY <1>3, <1>4, <1>5, <1>6, <1>7, <1>8, <1>9 DEF AInv

\* A step that changes nothing keeps the invariant.
LEMMA UnchangedStep ==
  ASSUME AInv, UNCHANGED vars
  PROVE  AInv'
<1>1. UNCHANGED <<alive, m_nsHandles, m_agcHandles, m_rnnoiseHandles, m_captureLevel,
                  capture_buffer, m_frequency, m_channels, m_doAgc, ready, inits, live,
                  served, shifted, failed, overrun>>
  BY DEF vars, vectors, config
<1>2. TypeOK' /\ Blank' /\ OwnsLive'
  BY <1>1 DEF AInv, TypeOK, Blank, OwnsLive, Owned
<1>3. VectorsOwn' /\ IndicesInRange' /\ LevelsOwn' /\ LevelsOfChannel'
  BY <1>1 DEF AInv, VectorsOwn, IndicesInRange, LevelsOwn, LevelsOfChannel
<1>4. ServedInPlace' /\ OneChannelPerHandle'
  BY <1>1 DEF AInv, ServedInPlace, ServedAt, OneChannelPerHandle
<1>5. BufferFits' /\ OverrunNeedsOldBuffer'
  BY <1>1 DEF AInv, BufferFits, Fits, SplitRate, OverrunNeedsOldBuffer
<1> QED
  BY <1>2, <1>3, <1>4, <1>5 DEF AInv

\* Every step keeps the invariant.
LEMMA NextAInv == AInv /\ [Next]_vars => AInv'
<1> SUFFICES ASSUME AInv, [Next]_vars
             PROVE  AInv'
  OBVIOUS
<1>1. ASSUME NEW f \in Rates, NEW c \in Channels, NEW agc \in BOOLEAN,
             initNsModule(f, c, agc)
      PROVE  AInv'
  BY <1>1, InitNsStep
<1>2. ASSUME NEW f \in Rates, NEW c \in Channels, NEW agc \in BOOLEAN,
             InitNsRefused(f, c, agc)
      PROVE  AInv'
  BY <1>2, RefusedStep
<1>3. ASSUME NEW f \in Rates, NEW c \in Channels, NEW agc \in BOOLEAN,
             initRnnoiseModule(f, c, agc)
      PROVE  AInv'
  BY <1>3, InitRnnoiseStep
<1>4. ASSUME NEW f \in Rates, NEW c \in Channels, InitRnnoiseRefused(f, c)
      PROVE  AInv'
  BY <1>4, UnchangedStep, PTL DEF InitRnnoiseRefused
<1>5. ASSUME NEW n \in Samples, processCaptureStream(n) \/ processUseRnnoise(n)
      PROVE  AInv'
  BY <1>5, ProcessStep
<1>6. CASE ProcessOverruns
  BY <1>6, OverrunStep
<1>7. CASE Destroy
  BY <1>7, DestroyStep
<1>8. CASE UNCHANGED vars
  BY <1>8, UnchangedStep
<1> QED
  BY <1>1, <1>2, <1>3, <1>4, <1>5, <1>6, <1>7, <1>8 DEF Next

\* The invariant holds of every object, however often and with whatever
\* settings it is initialised.
THEOREM AInvariance == Spec => []AInv
BY InitAInv, NextAInv, PTL DEF Spec
-----------------------------------------------------------------------------
(***************************************************************************)
(* What the invariant says about the runs' properties.                     *)
(***************************************************************************)
\* A vector of distinct handles has as many handles as places.
LEMMA VectorCardinality ==
  ASSUME NEW v, NEW kind, NEW n, OwnVector(v, kind, n)
  PROVE  IsFiniteSet(Range(v)) /\ Cardinality(Range(v)) = Len(v)
<1>1. /\ v \in Seq(Handles) /\ Len(v) \in Nat /\ DOMAIN v = 1 .. Len(v)
      /\ \A i, j \in 1 .. Len(v) : v[i] = v[j] => i = j
  BY DEF OwnVector
<1>2. Range(v) = {v[i] : i \in 1 .. Len(v)}
  BY <1>1, RangeEquality
<1>3. v \in [1 .. Len(v) -> Range(v)]
  <2>1. \A i \in 1 .. Len(v) : v[i] \in Range(v)
    BY <1>2
  <2>2. v = [i \in 1 .. Len(v) |-> v[i]]
    BY <1>1
  <2> QED
    BY <2>1, <2>2
<1>4. v \in Surjection(1 .. Len(v), Range(v))
  BY <1>2, <1>3 DEF Surjection
<1>5. v \in Injection(1 .. Len(v), Range(v))
  BY <1>1, <1>3 DEF Injection, IsInjective
<1>6. IsFiniteSet(1 .. Len(v)) /\ Cardinality(1 .. Len(v)) = Len(v)
  BY <1>1, FS_Interval
<1> QED
  BY <1>4, <1>5, <1>6, FS_Surjection

\* The sizes of disjoint finite sets add up.
LEMMA DisjointCardinality ==
  ASSUME NEW S, IsFiniteSet(S), NEW T, IsFiniteSet(T), S \cap T = {}
  PROVE  IsFiniteSet(S \cup T) /\ Cardinality(S \cup T) = Cardinality(S) + Cardinality(T)
<1>1. Cardinality(S) \in Nat /\ Cardinality(T) \in Nat
  BY FS_CardinalityType
<1>2. /\ IsFiniteSet(S \cup T)
      /\ Cardinality(S \cup T) = Cardinality(S) + Cardinality(T) - Cardinality(S \cap T)
  BY FS_Union
<1>3. Cardinality(S \cap T) = 0
  BY FS_EmptySet
<1> QED
  BY <1>1, <1>2, <1>3

\* The vectors share no handle, because each holds handles of its own kind.
LEMMA OwnedCardinality ==
  ASSUME VectorsOwn
  PROVE  Cardinality(Owned) =
           Len(m_nsHandles) + Len(m_agcHandles) + Len(m_rnnoiseHandles)
<1> DEFINE A == Range(m_nsHandles)
           B == Range(m_agcHandles)
           C == Range(m_rnnoiseHandles)
<1>1. /\ IsFiniteSet(A) /\ Cardinality(A) = Len(m_nsHandles)
      /\ IsFiniteSet(B) /\ Cardinality(B) = Len(m_agcHandles)
      /\ IsFiniteSet(C) /\ Cardinality(C) = Len(m_rnnoiseHandles)
  BY VectorCardinality DEF VectorsOwn
<1>2. ASSUME NEW v, NEW kind, OwnVector(v, kind, inits), NEW h \in Range(v)
      PROVE  h[1] = kind
  BY <1>2, InRange DEF OwnVector
<1>3. /\ \A h \in A : h[1] = "ns"
      /\ \A h \in B : h[1] = "agc"
      /\ \A h \in C : h[1] = "rnn"
  BY <1>2 DEF VectorsOwn
<1>4. Owned = (A \cup B) \cup C
  BY DEF Owned
<1> HIDE DEF A, B, C
<1>5. A \cap B = {} /\ (A \cup B) \cap C = {}
  BY <1>3
<1>7. IsFiniteSet(A \cup B) /\ Cardinality(A \cup B) = Cardinality(A) + Cardinality(B)
  BY <1>1, <1>5, DisjointCardinality
<1>8. Cardinality((A \cup B) \cup C) = Cardinality(A \cup B) + Cardinality(C)
  BY <1>1, <1>5, <1>7, DisjointCardinality
<1> QED
  BY <1>1, <1>4, <1>7, <1>8

\* The vectors hold handles and the levels come from gain controls.
THEOREM ApmTypeCorrect == Spec => []TypeOK
<1>1. AInv => TypeOK
  BY DEF AInv
<1> QED
  BY <1>1, AInvariance, PTL

\* No processing loop (apm_ns.cpp 100-118 and 266-288) indexes behind the end
\* of a vector of handles or levels, whatever sessions came before and however
\* they ended.
THEOREM ApmIndicesInRange == Spec => []IndicesInRange
<1>1. AInv => IndicesInRange
  BY DEF AInv
<1> QED
  BY <1>1, AInvariance, PTL

\* The destructor (apm_ns.cpp 312-323) frees no handle twice and none that is
\* free, and an object initialised once, with success, leaks nothing.
THEOREM ApmHandlesOwnedOnce == Spec => []HandlesOwnedOnce
<1>1. AInv => HandlesOwnedOnce
  <2>1. ASSUME AInv, alive
        PROVE  /\ Owned \subseteq live
               /\ Cardinality(Owned) =
                    Len(m_nsHandles) + Len(m_agcHandles) + Len(m_rnnoiseHandles)
    BY <2>1, OwnedCardinality DEF AInv, OwnsLive
  <2>2. AInv /\ ~alive /\ inits <= 1 /\ ~failed => live = {}
    BY DEF AInv, OwnsLive
  <2> QED
    BY <2>1, <2>2 DEF HandlesOwnedOnce
<1> QED
  BY <1>1, AInvariance, PTL

\* No suppressor or gain control ever adapts to the signals of two channels.
THEOREM ApmOneChannelPerHandle == Spec => []OneChannelPerHandle
<1>1. AInv => OneChannelPerHandle
  BY DEF AInv
<1> QED
  BY <1>1, AInvariance, PTL

\* Until m_agcHandles is cleared under m_captureLevel, the level fed back to a
\* gain control is its own (apm_ns.cpp 108-113); ever after, it comes from a gain
\* control of the same channel.
THEOREM ApmLevelsFollowHandles == Spec => []LevelsFollowHandles
<1>1. AInv => LevelsFollowHandles
  BY DEF AInv, LevelsFollowHandles
<1> QED
  BY <1>1, AInvariance, PTL

\* Only processUseRnnoise, in a session that kept the buffer of an earlier one,
\* can be given a frame the buffer does not hold.
THEOREM ApmOverrunNeedsOldBuffer == Spec => []OverrunNeedsOldBuffer
<1>1. AInv => OverrunNeedsOldBuffer
  BY DEF AInv
<1> QED
  BY <1>1, AInvariance, PTL
-----------------------------------------------------------------------------
(***************************************************************************)
(* ProcessedInPlace: what a frame is after a processing call.  The loops   *)
(* over the channels are recursive functions; each is shown equal to a     *)
(* closed form by taking the first channel at which it would differ.       *)
(***************************************************************************)
\* A non-empty set of naturals has a least element.
LEMMA LeastNat ==
  ASSUME NEW S, S \subseteq Nat, S # {}
  PROVE  \E x \in S : \A y \in S : x <= y
<1> DEFINE R == {ss \in Nat \X Nat : ss[1] < ss[2]}
<1>1. IsWellFoundedOn(R, Nat)
  BY NatLessThanWellFounded DEF OpToRel
<1>2. PICK x \in S : \A y \in S : ~(<<y, x>> \in R)
  <2> HIDE DEF R
  <2> QED
    BY <1>1, WFMin
<1>3. ASSUME NEW y \in S
      PROVE  x <= y
  <2>1. x \in Nat /\ y \in Nat /\ ~(<<y, x>> \in R)
    BY <1>2
  <2> QED
    BY <2>1
<1> QED
  BY <1>3

\* A loop that agrees with st at the start, and whenever it does so before an
\* iteration also after it, agrees with st at the end.
LEMMA LoopAgrees ==
  ASSUME NEW c \in Nat, NEW g, NEW st, g[0] = st[0],
         \A i \in 1 .. c : g[i - 1] = st[i - 1] => g[i] = st[i]
  PROVE  g[c] = st[c]
<1> SUFFICES ASSUME g[c] # st[c]
             PROVE  FALSE
  OBVIOUS
<1> DEFINE Wrong == {i \in 0 .. c : g[i] # st[i]}
<1>1. c \in Wrong /\ Wrong \subseteq Nat
  OBVIOUS
<1>2. PICK i \in Wrong : \A y \in Wrong : i <= y
  <2> HIDE DEF Wrong
  <2> QED
    BY <1>1, LeastNat
<1>3. i # 0
  OBVIOUS
<1>4. i \in 1 .. c /\ i - 1 \in 0 .. c /\ i - 1 \notin Wrong
  BY <1>2, <1>3
<1> QED
  BY <1>4

(***************************************************************************)
(* The two copies of a buffer: only the shorts, only the floats or both of *)
(* them are valid.                                                         *)
(***************************************************************************)
Buf(i, f, ivalid, fvalid) == [i |-> i, f |-> f, ivalid |-> ivalid, fvalid |-> fvalid]
BufI(i, f) == Buf(i, f, TRUE, FALSE)
BufF(i, f) == Buf(i, f, FALSE, TRUE)
BufB(i, f) == Buf(i, f, TRUE, TRUE)

\* Refreshing a copy converts the other one only if this one is out of date.
LEMMA BufRefreshed ==
  ASSUME NEW i, NEW f
  PROVE  /\ RefreshI(BufI(i, f)) = BufI(i, f) /\ RefreshI(BufB(i, f)) = BufB(i, f)
         /\ RefreshI(BufF(i, f)) = BufB(f, f)
         /\ RefreshF(BufF(i, f)) = BufF(i, f) /\ RefreshF(BufB(i, f)) = BufB(i, f)
         /\ RefreshF(BufI(i, f)) = BufB(i, i)
<1>1. RefreshI(BufI(i, f)) = BufI(i, f)
  BY Zenon DEF RefreshI, BufI, Buf
<1>2. RefreshI(BufB(i, f)) = BufB(i, f)
  BY Zenon DEF RefreshI, BufB, Buf
<1>3. RefreshI(BufF(i, f)) = BufB(f, f)
  BY Zenon DEF RefreshI, BufF, BufB, Buf
<1>4. RefreshF(BufF(i, f)) = BufF(i, f)
  BY Zenon DEF RefreshF, BufF, Buf
<1>5. RefreshF(BufB(i, f)) = BufB(i, f)
  BY Zenon DEF RefreshF, BufB, Buf
<1>6. RefreshF(BufI(i, f)) = BufB(i, i)
  BY Zenon DEF RefreshF, BufI, BufB, Buf
<1> QED
  BY <1>1, <1>2, <1>3, <1>4, <1>5, <1>6

\* Handing out one copy makes the other invalid.
LEMMA BufHandedOut ==
  ASSUME NEW b, NEW i, NEW f, NEW iv, NEW fv
  PROVE  /\ RefreshI(b) = Buf(i, f, iv, fv) => ibuf(b) = Buf(i, f, iv, FALSE)
         /\ RefreshF(b) = Buf(i, f, iv, fv) => fbuf(b) = Buf(i, f, FALSE, fv)
<1>1. ASSUME NEW x
      PROVE  /\ [Buf(i, f, iv, fv) EXCEPT !.fvalid = x] = Buf(i, f, iv, x)
             /\ [Buf(i, f, iv, fv) EXCEPT !.ivalid = x] = Buf(i, f, x, fv)
  BY DEF Buf
<1>2. RefreshI(b) = Buf(i, f, iv, fv) => ibuf(b) = Buf(i, f, iv, FALSE)
  BY <1>1, Zenon DEF ibuf
<1>3. RefreshF(b) = Buf(i, f, iv, fv) => fbuf(b) = Buf(i, f, FALSE, fv)
  BY <1>1, Zenon DEF fbuf
<1> QED
  BY <1>2, <1>3

\* The four accessors on each of the three kinds of buffer.
LEMMA BufCalls ==
  ASSUME NEW i, NEW f
  PROVE  /\ ibuf(BufI(i, f)) = BufI(i, f)
         /\ ibuf(BufF(i, f)) = BufI(f, f)
         /\ ibuf(BufB(i, f)) = BufI(i, f)
         /\ ibuf_const(BufI(i, f)) = BufI(i, f)
         /\ ibuf_const(BufF(i, f)) = BufB(f, f)
         /\ fbuf_const(BufI(i, f)) = BufB(i, i)
         /\ fbuf_const(BufF(i, f)) = BufF(i, f)
         /\ fbuf(BufB(i, f)) = BufF(i, f)
         /\ fbuf(BufF(i, f)) = BufF(i, f)
<1>1. /\ ibuf_const(BufI(i, f)) = BufI(i, f)
      /\ ibuf_const(BufF(i, f)) = BufB(f, f)
      /\ fbuf_const(BufI(i, f)) = BufB(i, i)
      /\ fbuf_const(BufF(i, f)) = BufF(i, f)
  BY BufRefreshed, Zenon DEF ibuf_const, fbuf_const
<1>2. ibuf(BufI(i, f)) = BufI(i, f)
  <2>1. RefreshI(BufI(i, f)) = BufI(i, f)
    BY BufRefreshed
  <2>2. RefreshI(BufI(i, f)) = Buf(i, f, TRUE, FALSE) => ibuf(BufI(i, f)) = Buf(i, f, TRUE, FALSE)
    BY BufHandedOut, Zenon
  <2> QED
    BY <2>1, <2>2, Zenon DEF BufI, BufF, BufB
<1>3. ibuf(BufF(i, f)) = BufI(f, f)
  <2>1. RefreshI(BufF(i, f)) = BufB(f, f)
    BY BufRefreshed
  <2> QED
    BY <2>1, BufHandedOut, Zenon DEF BufI, BufF, BufB
<1>4. ibuf(BufB(i, f)) = BufI(i, f)
  <2>1. RefreshI(BufB(i, f)) = BufB(i, f)
    BY BufRefreshed
  <2> QED
    BY <2>1, BufHandedOut, Zenon DEF BufI, BufF, BufB
<1>5. fbuf(BufB(i, f)) = BufF(i, f)
  <2>1. RefreshF(BufB(i, f)) = BufB(i, f)
    BY BufRefreshed
  <2>2. RefreshF(BufB(i, f)) = Buf(i, f, TRUE, TRUE) => fbuf(BufB(i, f)) = Buf(i, f, FALSE, TRUE)
    BY BufHandedOut, Zenon
  <2> QED
    BY <2>1, <2>2, Zenon DEF BufI, BufF, BufB
<1>6. fbuf(BufF(i, f)) = BufF(i, f)
  <2>1. RefreshF(BufF(i, f)) = BufF(i, f)
    BY BufRefreshed
  <2>2. RefreshF(BufF(i, f)) = Buf(i, f, FALSE, TRUE) => fbuf(BufF(i, f)) = Buf(i, f, FALSE, TRUE)
    BY BufHandedOut, Zenon
  <2> QED
    BY <2>1, <2>2, Zenon DEF BufI, BufF, BufB
<1> QED
  BY <1>1, <1>2, <1>3, <1>4, <1>5, <1>6, Zenon

\* What a stage writes into the copy it was given.
PutI(b, ch, stage) == [b EXCEPT !.i[ch] = Through(stage, @)]
PutF(b, ch, stage) == [b EXCEPT !.f[ch] = Through(stage, @)]
Put(x, ch, stage) == [x EXCEPT ![ch] = Through(stage, x[ch])]

SetI(b, ch, x) == [b EXCEPT !.i[ch] = x]
SetAllI(b, x) == [b EXCEPT !.i = x]
SetAt(f, ch, x) == [f EXCEPT ![ch] = x]

\* Writing into the shorts.
LEMMA BufWrites ==
  ASSUME NEW i, NEW f
  PROVE  /\ BufI(i, f).i = i /\ BufB(i, f).i = i
         /\ \A x : SetAllI(BufI(i, f), x) = BufI(x, f)
         /\ \A ch, x : SetI(BufI(i, f), ch, x) = BufI(SetAt(i, ch, x), f)
<1>1. ASSUME NEW iv, NEW fv
      PROVE  Buf(i, f, iv, fv).i = i
  BY DEF Buf
<1>2. ASSUME NEW iv, NEW fv, NEW x
      PROVE  SetAllI(Buf(i, f, iv, fv), x) = Buf(x, f, iv, fv)
  BY DEF Buf, SetAllI
<1>3. ASSUME NEW iv, NEW fv, NEW x, NEW ch
      PROVE  SetI(Buf(i, f, iv, fv), ch, x) = Buf(SetAt(i, ch, x), f, iv, fv)
  BY DEF Buf, SetI, SetAt
<1>4. BufI(i, f).i = i /\ BufB(i, f).i = i
  BY <1>1, Zenon DEF BufI, BufB
<1>5. ASSUME NEW x
      PROVE  SetAllI(BufI(i, f), x) = BufI(x, f)
  BY <1>2, Zenon DEF BufI
<1>6. ASSUME NEW ch, NEW x
      PROVE  SetI(BufI(i, f), ch, x) = BufI(SetAt(i, ch, x), f)
  BY <1>3, Zenon DEF BufI
<1> QED
  BY <1>4, <1>5, <1>6

\* A stage rewrites one channel of the copy it works on.
LEMMA BufStages ==
  ASSUME NEW i, NEW f, NEW ch, NEW stage
  PROVE  /\ PutI(BufI(i, f), ch, stage) = BufI(Put(i, ch, stage), f)
         /\ PutF(BufF(i, f), ch, stage) = BufF(i, Put(f, ch, stage))
<1>1. ASSUME NEW iv, NEW fv
      PROVE  /\ PutI(Buf(i, f, iv, fv), ch, stage) = Buf(Put(i, ch, stage), f, iv, fv)
             /\ PutF(Buf(i, f, iv, fv), ch, stage) = Buf(i, Put(f, ch, stage), iv, fv)
  BY DEF Buf, PutI, PutF, Put
<1> QED
  BY <1>1, Zenon DEF BufI, BufF

\* One stage on a buffer of bands.
Shorts(b, ch, stage) == PutI(ibuf(ibuf_const(b)), ch, stage)
Floats(b, ch, stage) == PutF(fbuf(fbuf_const(b)), ch, stage)

\* A stage on shorts and one on floats, from either state of the buffer: it
\* reads the copy that is up to date.
LEMMA StageOnBuf ==
  ASSUME NEW i, NEW f, NEW ch, NEW stage
  PROVE  /\ Shorts(BufI(i, f), ch, stage) = BufI(Put(i, ch, stage), f)
         /\ Shorts(BufF(i, f), ch, stage) = BufI(Put(f, ch, stage), f)
         /\ Floats(BufI(i, f), ch, stage) = BufF(i, Put(i, ch, stage))
         /\ Floats(BufF(i, f), ch, stage) = BufF(i, Put(f, ch, stage))
<1>1. /\ ibuf(ibuf_const(BufI(i, f))) = BufI(i, f)
      /\ ibuf(ibuf_const(BufF(i, f))) = BufI(f, f)
      /\ fbuf(fbuf_const(BufI(i, f))) = BufF(i, i)
      /\ fbuf(fbuf_const(BufF(i, f))) = BufF(i, f)
  BY BufCalls
<1>2. /\ Shorts(BufI(i, f), ch, stage) = PutI(BufI(i, f), ch, stage)
      /\ Shorts(BufF(i, f), ch, stage) = PutI(BufI(f, f), ch, stage)
      /\ Floats(BufI(i, f), ch, stage) = PutF(BufF(i, i), ch, stage)
      /\ Floats(BufF(i, f), ch, stage) = PutF(BufF(i, f), ch, stage)
  BY <1>1 DEF Shorts, Floats
<1>3. ASSUME NEW x, NEW y
      PROVE  /\ PutI(BufI(x, y), ch, stage) = BufI(Put(x, ch, stage), y)
             /\ PutF(BufF(x, y), ch, stage) = BufF(x, Put(y, ch, stage))
  BY BufStages
<1> QED
  BY <1>2, <1>3

\* An AudioBuffer with and without bands of its own.
Banded(c, s) == [splits |-> TRUE, channels |-> c, split |-> s]
Whole(c, s) == [splits |-> FALSE, channels |-> c, split |-> s]

SetChannels(ab, b) == [ab EXCEPT !.channels = b]
SetSplit(ab, b) == [ab EXCEPT !.split = b]

\* The fields of a frame with bands and of one without, and which buffer is
\* its bands.
LEMMA AbParts ==
  ASSUME NEW c, NEW s
  PROVE  /\ Banded(c, s).channels = c /\ Banded(c, s).split = s /\ Whole(c, s).channels = c
         /\ \A b : SetChannels(Banded(c, s), b) = Banded(b, s)
         /\ \A b : SetSplit(Banded(c, s), b) = Banded(c, b)
         /\ \A b : SetChannels(Whole(c, s), b) = Whole(b, s)
         /\ Bands(Banded(c, s)) = s /\ Bands(Whole(c, s)) = c
         /\ \A b : WithBands(Banded(c, s), b) = Banded(c, b)
         /\ \A b : WithBands(Whole(c, s), b) = Whole(b, s)
<1> DEFINE Ab(z) == [splits |-> z, channels |-> c, split |-> s]
<1>1. ASSUME NEW z, NEW b
      PROVE  /\ Ab(z).channels = c /\ Ab(z).split = s
             /\ [Ab(z) EXCEPT !.channels = b] = [splits |-> z, channels |-> b, split |-> s]
             /\ [Ab(z) EXCEPT !.split = b] = [splits |-> z, channels |-> c, split |-> b]
  OBVIOUS
<1>2. ASSUME NEW b
      PROVE  /\ Banded(c, s).channels = c /\ Banded(c, s).split = s /\ Whole(c, s).channels = c
             /\ [Banded(c, s) EXCEPT !.channels = b] = Banded(b, s)
             /\ [Banded(c, s) EXCEPT !.split = b] = Banded(c, b)
             /\ [Whole(c, s) EXCEPT !.channels = b] = Whole(b, s)
  BY <1>1, Zenon DEF Banded, Whole
<1>3. Bands(Banded(c, s)) = s
  BY Zenon DEF Banded, Bands
<1>4. Bands(Whole(c, s)) = c
  BY Zenon DEF Whole, Bands
<1>5. Banded(c, s).splits /\ ~Whole(c, s).splits
  BY Zenon DEF Banded, Whole
<1>6. ASSUME NEW b
      PROVE  WithBands(Banded(c, s), b) = Banded(c, b) /\ WithBands(Whole(c, s), b) = Whole(b, s)
  BY <1>2, <1>5, Zenon DEF WithBands
<1>7. ASSUME NEW b
      PROVE  /\ SetChannels(Banded(c, s), b) = Banded(b, s)
             /\ SetSplit(Banded(c, s), b) = Banded(c, b)
             /\ SetChannels(Whole(c, s), b) = Whole(b, s)
  BY <1>2, Zenon DEF SetChannels, SetSplit
<1> QED
  BY <1>2, <1>3, <1>4, <1>6, <1>7, Zenon

\* A stage on a frame is the stage on its bands.
LEMMA StageOnAb ==
  ASSUME NEW c, NEW s, NEW ch, NEW stage
  PROVE  /\ OnShorts(Banded(c, s), ch, stage) = Banded(c, Shorts(s, ch, stage))
         /\ OnShorts(Whole(c, s), ch, stage) = Whole(Shorts(c, ch, stage), s)
         /\ OnFloats(Banded(c, s), ch, stage) = Banded(c, Floats(s, ch, stage))
         /\ OnFloats(Whole(c, s), ch, stage) = Whole(Floats(c, ch, stage), s)
<1>1. ASSUME NEW ab
      PROVE  /\ OnShorts(ab, ch, stage) = WithBands(ab, Shorts(Bands(ab), ch, stage))
             /\ OnFloats(ab, ch, stage) = WithBands(ab, Floats(Bands(ab), ch, stage))
  BY Zenon DEF OnShorts, OnFloats, Shorts, Floats, PutI, PutF
<1>2. /\ Bands(Banded(c, s)) = s /\ Bands(Whole(c, s)) = c
      /\ \A b : WithBands(Banded(c, s), b) = Banded(c, b)
      /\ \A b : WithBands(Whole(c, s), b) = Whole(b, s)
  BY AbParts
<1> QED
  BY <1>1, <1>2

(***************************************************************************)
(* The loop that loads a frame.                                            *)
(***************************************************************************)
Splits(frames) == frames \in {320, 480}
Box(frames, c, s) == IF Splits(frames) THEN Banded(c, s) ELSE Whole(c, s)

\* The full band of a frame.
LEMMA BoxParts ==
  ASSUME NEW c, NEW s, NEW fr
  PROVE  Box(fr, c, s).channels = c /\ \A b : SetChannels(Box(fr, c, s), b) = Box(fr, b, s)
<1>1. CASE Splits(fr)
  BY <1>1, AbParts DEF Box
<1>2. CASE ~Splits(fr)
  BY <1>2, AbParts DEF Box
<1> QED
  BY <1>1, <1>2

\* What data(ch) returns, whichever copy is valid.
LEMMA BoxData ==
  ASSUME NEW i, NEW f, NEW s, NEW ch, NEW fr
  PROVE  /\ Data(Box(fr, BufI(i, f), s), ch) = i[ch]
         /\ Data(Box(fr, BufF(i, f), s), ch) = f[ch]
<1>1. ibuf(BufI(i, f)) = BufI(i, f) /\ ibuf(BufF(i, f)) = BufI(f, f)
  BY BufCalls
<1>2. BufI(i, f).i = i /\ BufI(f, f).i = f
  BY BufWrites
<1> QED
  BY <1>1, <1>2, BoxParts DEF Data

\* What a write through data(ch) leaves.
LEMMA BoxWrite ==
  ASSUME NEW i, NEW f, NEW s, NEW ch, NEW fr, NEW x
  PROVE  /\ WithData(Box(fr, BufI(i, f), s), ch, x) = Box(fr, BufI(SetAt(i, ch, x), f), s)
         /\ WithData(Box(fr, BufB(i, f), s), ch, x) = Box(fr, BufI(SetAt(i, ch, x), f), s)
<1>1. ibuf(BufI(i, f)) = BufI(i, f) /\ ibuf(BufB(i, f)) = BufI(i, f)
  BY BufCalls
<1>2. SetI(BufI(i, f), ch, x) = BufI(SetAt(i, ch, x), f)
  BY BufWrites
<1>3. ASSUME NEW ab
      PROVE  WithData(ab, ch, x) = SetChannels(ab, SetI(ibuf(ab.channels), ch, x))
  BY Zenon DEF WithData, SetChannels, SetI
<1>4. /\ SetI(ibuf(Box(fr, BufI(i, f), s).channels), ch, x) = BufI(SetAt(i, ch, x), f)
      /\ SetI(ibuf(Box(fr, BufB(i, f), s).channels), ch, x) = BufI(SetAt(i, ch, x), f)
  BY <1>1, <1>2, BoxParts
<1> QED
  BY <1>3, <1>4, BoxParts

\* The shorts once k channels have been loaded.
Rows(full, old, k) == [ch \in DOMAIN old |-> IF ch < k THEN full[ch] ELSE old[ch]]

Over(g, D) == g = [ch \in D |-> g[ch]]

\* Replacing row k after the rows before it.
LEMMA RowsStep ==
  ASSUME NEW full, NEW C \in Nat, NEW old, Over(old, 0 .. C - 1), NEW k \in 0 .. C - 1
  PROVE  /\ Rows(full, old, k)[k] = old[k]
         /\ SetAt(Rows(full, old, k), k, full[k]) = Rows(full, old, k + 1)
<1>1. \A ch \in 0 .. C - 1 : ch < k + 1 <=> ch < k \/ ch = k
  OBVIOUS
<1>2. DOMAIN old = 0 .. C - 1
  BY DEF Over
<1>3. Rows(full, old, k)[k] = old[k]
  BY <1>2 DEF Rows
<1>4. Rows(full, old, k) = [ch \in 0 .. C - 1 |-> IF ch < k THEN full[ch] ELSE old[ch]]
      /\ Rows(full, old, k + 1) = [ch \in 0 .. C - 1 |-> IF ch < k + 1 THEN full[ch] ELSE old[ch]]
  BY <1>2 DEF Rows
<1>5. SetAt(Rows(full, old, k), k, full[k]) = Rows(full, old, k + 1)
  BY <1>1, <1>4 DEF SetAt
<1> QED
  BY <1>3, <1>5

\* No row replaced.
LEMMA NoRows ==
  ASSUME NEW full, NEW C \in Nat, NEW old, Over(old, 0 .. C - 1)
  PROVE  Rows(full, old, 0) = old
<1>1. \A ch \in 0 .. C - 1 : ~(ch < 0)
  OBVIOUS
<1> QED
  BY <1>1 DEF Rows, Over

\* The loop that deinterleaves the frame, in closed form: the first m_channels
\* rows of the shorts are the caller's, the others are left from the frame
\* before.
LEMMA LoadedClosed ==
  ASSUME NEW n \in Nat, m_channels \in Nat \ {0}, capture_buffer.channels \in Nat, Fits
  PROVE  LET full == Deinterleaved(Fresh(m_channels, n), m_channels, n)
             old == Old(capture_buffer.channels, n)
         IN  Loaded(n) = Box(capture_buffer.frames, BufI(Rows(full, old, m_channels), old), BufB(old, old))
<1> DEFINE fr == capture_buffer.frames
           full == Deinterleaved(Fresh(m_channels, n), m_channels, n)
           old == Old(capture_buffer.channels, n)
           ab == AudioBuffer(fr, capture_buffer.channels, n)
           Bf(k) == IF k = 0 THEN BufB(old, old) ELSE BufI(Rows(full, old, k), old)
           St(k) == Box(fr, Bf(k), BufB(old, old))
           Is(g) == g = [ch \in 0 .. m_channels |->
                           IF ch = 0 THEN ab ELSE WithData(g[ch - 1], ch - 1, full[ch - 1])]
           st == [k \in 0 .. m_channels |-> St(k)]
           after == CHOOSE g : Is(g)
<1>0. DOMAIN old = 0 .. capture_buffer.channels - 1 /\ m_channels <= capture_buffer.channels
      /\ Over(old, 0 .. capture_buffer.channels - 1)
  BY DEF Old, Fits, Over
<1>1. Loaded(n) = after[m_channels]
  BY DEF Loaded, ForChannels
<1> HIDE DEF full, old, fr
<1>2. ab = St(0)
  <2>1. Bf(0) = BufB(old, old)
    OBVIOUS
  <2>2. IFChannelBuffer(old) = BufB(old, old)
    BY Zenon DEF IFChannelBuffer, BufB, Buf
  <2> HIDE DEF Bf
  <2>3. ab = [splits |-> Splits(fr), channels |-> BufB(old, old), split |-> BufB(old, old)]
    BY <2>2, Zenon DEF AudioBuffer, Splits, old, fr
  <2>4. CASE Splits(fr)
    <3>1. Splits(fr) = TRUE
      BY <2>4 DEF Splits
    <3> QED
      BY <2>1, <2>3, <3>1, Zenon DEF Box, Banded
  <2>5. CASE ~Splits(fr)
    <3>1. Splits(fr) = FALSE
      BY <2>5 DEF Splits
    <3> QED
      BY <2>1, <2>3, <3>1, Zenon DEF Box, Whole
  <2> QED
    BY <2>4, <2>5
<1> HIDE DEF ab
<1>3. ASSUME NEW k \in 1 .. m_channels
      PROVE  WithData(St(k - 1), k - 1, full[k - 1]) = St(k)
  <2>1. SetAt(Rows(full, old, k - 1), k - 1, full[k - 1]) = Rows(full, old, k)
    <3>1. k - 1 \in 0 .. capture_buffer.channels - 1 /\ (k - 1) + 1 = k
      BY <1>0
    <3> QED
      BY <1>0, <3>1, RowsStep
  <2>2. Bf(k) = BufI(Rows(full, old, k), old)
    OBVIOUS
  <2>3. WithData(St(k - 1), k - 1, full[k - 1]) =
          Box(fr, BufI(SetAt(Rows(full, old, k - 1), k - 1, full[k - 1]), old), BufB(old, old))
    <3>1. CASE k = 1
      <4>1. Bf(k - 1) = BufB(old, old) /\ Rows(full, old, k - 1) = old
        BY <1>0, <3>1, NoRows
      <4> HIDE DEF Bf
      <4> QED
        BY <4>1, BoxWrite
    <3>2. CASE k # 1
      <4>1. Bf(k - 1) = BufI(Rows(full, old, k - 1), old)
        BY <3>2
      <4> HIDE DEF Bf
      <4> QED
        BY <4>1, BoxWrite
    <3> QED
      BY <3>1, <3>2
  <2> HIDE DEF Bf
  <2> QED
    BY <2>1, <2>2, <2>3, Zenon
<1>a. St(m_channels) = Box(fr, BufI(Rows(full, old, m_channels), old), BufB(old, old))
  OBVIOUS
<1> HIDE DEF St
<1>4. Is(st)
  <2>1. ASSUME NEW ch \in 0 .. m_channels
        PROVE  St(ch) = IF ch = 0 THEN ab ELSE WithData(st[ch - 1], ch - 1, full[ch - 1])
    BY <1>2, <1>3
  <2> QED
    BY <2>1
<1>5. Is(after)
  <2> HIDE DEF Is, st
  <2> QED
    BY <1>4
<1> HIDE DEF after
<1>6. \A ch \in 0 .. m_channels : after[ch] =
         IF ch = 0 THEN ab ELSE WithData(after[ch - 1], ch - 1, full[ch - 1])
  BY <1>5
<1>7. st[0] = St(0) /\ \A k \in 1 .. m_channels : st[k] = St(k) /\ st[k - 1] = St(k - 1)
  OBVIOUS
<1> HIDE DEF st, Is
<1>8. after[0] = st[0]
  BY <1>2, <1>6, <1>7
<1>9. \A k \in 1 .. m_channels : after[k - 1] = st[k - 1] => after[k] = st[k]
  BY <1>3, <1>6, <1>7
<1>10. after[m_channels] = st[m_channels]
  BY <1>8, <1>9, LoopAgrees
<1>11. st[m_channels] = St(m_channels)
  BY DEF st
<1> QED
  BY <1>1, <1>10, <1>11, <1>a DEF full, old, fr

(***************************************************************************)
(* The loop of processCaptureStream over the bands.                        *)
(***************************************************************************)
\* Reading back a row that was set.
LEMMA SetOnce ==
  ASSUME NEW C \in Nat, NEW g, Over(g, 0 .. C - 1), NEW k \in 0 .. C - 1, NEW a
  PROVE  SetAt(g, k, a)[k] = a
BY DEF SetAt, Over

\* Of two writes to a row the second stays.
LEMMA SetTwice ==
  ASSUME NEW C \in Nat, NEW g, Over(g, 0 .. C - 1), NEW k \in 0 .. C - 1, NEW a, NEW b
  PROVE  SetAt(SetAt(g, k, a), k, b) = SetAt(g, k, b)
BY DEF SetAt, Over

\* A stage sets one row.
LEMMA PutIsSet == ASSUME NEW g, NEW k, NEW stage PROVE Put(g, k, stage) = SetAt(g, k, Through(stage, g[k]))
BY Zenon DEF Put, SetAt

\* A channel of the bands after its turn, and the shorts it went through.
Suppressed(samples) == Through("ns", IF m_doAgc THEN Through("agc", samples) ELSE samples)
NsRows(R) == [ch \in DOMAIN R |-> Suppressed(R[ch])]
Halfway(R, k) ==
  IF m_doAgc THEN SetAt(Rows(NsRows(R), R, k - 1), k - 1, Through("agc", R[k - 1])) ELSE R
NsBuf(R, O, k) == IF k = 0 THEN BufI(R, O) ELSE BufF(Halfway(R, k), Rows(NsRows(R), R, k))

NsOn(b, ch) == Floats(IF m_doAgc THEN Shorts(b, ch, "agc") ELSE b, ch, "ns")

\* One iteration of the loop over the channels, on the bands: gain control
\* makes the floats stale for every channel, and suppression converts them all
\* anew.
LEMMA NsBufStep ==
  ASSUME NEW R, NEW O, NEW C \in Nat, Over(R, 0 .. C - 1), NEW k \in 0 .. C - 1
  PROVE  NsOn(NsBuf(R, O, k), k) = NsBuf(R, O, k + 1)
<1> DEFINE N == NsRows(R)
           G == Rows(N, R, k)
           H == Rows(N, R, k + 1)
<1>1. N[k] = Suppressed(R[k])
  BY DEF NsRows, Over
<1> HIDE DEF N
<1>2. Rows(N, R, 0) = R /\ G[k] = R[k] /\ SetAt(G, k, N[k]) = H
  BY RowsStep, NoRows
<1>3. Over(G, 0 .. C - 1)
  BY DEF Rows, Over
<1>4. NsBuf(R, O, k + 1) = BufF(Halfway(R, k + 1), H)
  <2>1. k + 1 # 0
    OBVIOUS
  <2> QED
    BY <2>1, Zenon DEF NsBuf, N
<1>5. NsBuf(R, O, k) = IF k = 0 THEN BufI(R, O) ELSE BufF(Halfway(R, k), G)
  BY Zenon DEF NsBuf, N
<1>6. k = 0 => G = R
  BY <1>2
<1> HIDE DEF G, H
<1>7. CASE m_doAgc
  <2> DEFINE M == SetAt(G, k, Through("agc", R[k]))
  <2>1. Halfway(R, k + 1) = M
    <3>1. (k + 1) - 1 = k
      OBVIOUS
    <3> QED
      BY <1>7, <3>1 DEF Halfway, G, N
  <2>2. N[k] = Through("ns", Through("agc", R[k]))
    BY <1>1, <1>7, Zenon DEF Suppressed
  <2>3. PICK f : Shorts(NsBuf(R, O, k), k, "agc") = BufI(M, f)
    <3>1. ASSUME NEW i, NEW f
          PROVE  /\ Shorts(BufI(i, f), k, "agc") = BufI(SetAt(i, k, Through("agc", i[k])), f)
                 /\ Shorts(BufF(i, f), k, "agc") = BufI(SetAt(f, k, Through("agc", f[k])), f)
      BY StageOnBuf, PutIsSet
    <3>2. CASE k = 0
      <4>1. Shorts(NsBuf(R, O, k), k, "agc") = BufI(SetAt(R, k, Through("agc", R[k])), O)
        BY <1>5, <3>1, <3>2
      <4> QED
        BY <1>6, <3>2, <4>1
    <3>3. CASE k # 0
      <4>1. Shorts(NsBuf(R, O, k), k, "agc") = BufI(SetAt(G, k, Through("agc", G[k])), G)
        BY <1>5, <3>1, <3>3
      <4> QED
        BY <1>2, <4>1
    <3> QED
      BY <3>2, <3>3
  <2>4. M[k] = Through("agc", R[k]) /\ \A b : SetAt(M, k, b) = SetAt(G, k, b)
    <3>1. M[k] = Through("agc", R[k])
      BY <1>3, SetOnce
    <3>2. ASSUME NEW b
          PROVE  SetAt(M, k, b) = SetAt(G, k, b)
      BY <1>3, SetTwice
    <3> QED
      BY <3>1, <3>2
  <2> HIDE DEF M
  <2>5. NsOn(NsBuf(R, O, k), k) = Floats(BufI(M, f), k, "ns")
    BY <1>7, <2>3, Zenon DEF NsOn
  <2>6. Floats(BufI(M, f), k, "ns") = BufF(M, SetAt(M, k, Through("ns", M[k])))
    BY StageOnBuf, PutIsSet
  <2>7. SetAt(M, k, Through("ns", M[k])) = H
    BY <1>2, <2>2, <2>4
  <2> QED
    BY <1>4, <2>1, <2>5, <2>6, <2>7
<1>8. CASE ~m_doAgc
  <2>1. Halfway(R, k + 1) = R /\ Halfway(R, k) = R
    BY <1>8, Zenon DEF Halfway
  <2>2. N[k] = Through("ns", R[k])
    BY <1>1, <1>8, Zenon DEF Suppressed
  <2>3. NsOn(NsBuf(R, O, k), k) = Floats(NsBuf(R, O, k), k, "ns")
    BY <1>8, Zenon DEF NsOn
  <2>4. ASSUME NEW i, NEW f
        PROVE  /\ Floats(BufI(i, f), k, "ns") = BufF(i, SetAt(i, k, Through("ns", i[k])))
               /\ Floats(BufF(i, f), k, "ns") = BufF(i, SetAt(f, k, Through("ns", f[k])))
    BY StageOnBuf, PutIsSet
  <2>5. CASE k = 0
    <3>1. Floats(NsBuf(R, O, k), k, "ns") = BufF(R, SetAt(R, k, Through("ns", R[k])))
      BY <1>5, <2>4, <2>5
    <3> QED
      BY <1>2, <1>4, <1>6, <2>1, <2>2, <2>3, <2>5, <3>1
  <2>6. CASE k # 0
    <3>1. Floats(NsBuf(R, O, k), k, "ns") = BufF(R, SetAt(G, k, Through("ns", G[k])))
      BY <1>5, <2>1, <2>4, <2>6
    <3> QED
      BY <1>2, <1>4, <2>1, <2>2, <2>3, <3>1
  <2> QED
    BY <2>5, <2>6
<1> QED
  BY <1>7, <1>8

\* The bands of a frame are buffers of their own or the frame itself.
Home(fr, X, Y, b) == IF Splits(fr) THEN Banded(X, b) ELSE Whole(b, Y)

\* The iteration on a frame is the iteration on its bands.
LEMMA NsOnHome ==
  ASSUME NEW fr, NEW X, NEW Y, NEW b, NEW ch
  PROVE  OnFloats(AgcOn(Home(fr, X, Y, b), ch), ch, "ns") = Home(fr, X, Y, NsOn(b, ch))
<1>1. ASSUME NEW d, NEW stage
      PROVE  /\ OnShorts(Home(fr, X, Y, d), ch, stage) = Home(fr, X, Y, Shorts(d, ch, stage))
             /\ OnFloats(Home(fr, X, Y, d), ch, stage) = Home(fr, X, Y, Floats(d, ch, stage))
  <2>1. CASE Splits(fr)
    BY <2>1, StageOnAb DEF Home
  <2>2. CASE ~Splits(fr)
    BY <2>2, StageOnAb DEF Home
  <2> QED
    BY <2>1, <2>2
<1>2. CASE m_doAgc
  <2>1. AgcOn(Home(fr, X, Y, b), ch) = Home(fr, X, Y, Shorts(b, ch, "agc"))
    BY <1>1, <1>2 DEF AgcOn
  <2>2. NsOn(b, ch) = Floats(Shorts(b, ch, "agc"), ch, "ns")
    BY <1>2, Zenon DEF NsOn
  <2> QED
    BY <1>1, <2>1, <2>2
<1>3. CASE ~m_doAgc
  <2>1. AgcOn(Home(fr, X, Y, b), ch) = Home(fr, X, Y, b)
    BY <1>3, Zenon DEF AgcOn
  <2>2. NsOn(b, ch) = Floats(b, ch, "ns")
    BY <1>3, Zenon DEF NsOn
  <2> QED
    BY <1>1, <2>1, <2>2
<1> QED
  BY <1>2, <1>3

\* The loop of processCaptureStream.
NsLoop(ab) ==
  LET after[ch \in 0 .. m_channels] ==
        IF ch = 0 THEN ab ELSE OnFloats(AgcOn(after[ch - 1], ch - 1), ch - 1, "ns")
  IN IF m_channels > 0 THEN after[m_channels] ELSE ab

\* The loop over the channels, in closed form.
LEMMA NsLoopClosed ==
  ASSUME NEW fr, NEW X, NEW Y, NEW R, NEW O, NEW C \in Nat, Over(R, 0 .. C - 1),
         m_channels \in Nat \ {0}, m_channels <= C
  PROVE  NsLoop(Home(fr, X, Y, BufI(R, O))) = Home(fr, X, Y, NsBuf(R, O, m_channels))
<1> DEFINE ab == Home(fr, X, Y, BufI(R, O))
           St(k) == Home(fr, X, Y, NsBuf(R, O, k))
           Is(g) == g = [ch \in 0 .. m_channels |->
                           IF ch = 0 THEN ab ELSE OnFloats(AgcOn(g[ch - 1], ch - 1), ch - 1, "ns")]
           st == [k \in 0 .. m_channels |-> St(k)]
           after == CHOOSE g : Is(g)
<1>1. NsLoop(ab) = after[m_channels]
  BY DEF NsLoop
<1>2. ab = St(0)
  BY Zenon DEF NsBuf
<1>3. ASSUME NEW k \in 1 .. m_channels
      PROVE  OnFloats(AgcOn(St(k - 1), k - 1), k - 1, "ns") = St(k)
  <2>1. k - 1 \in 0 .. C - 1 /\ (k - 1) + 1 = k
    OBVIOUS
  <2>2. NsOn(NsBuf(R, O, k - 1), k - 1) = NsBuf(R, O, k)
    BY <2>1, NsBufStep
  <2>3. OnFloats(AgcOn(St(k - 1), k - 1), k - 1, "ns") =
          Home(fr, X, Y, NsOn(NsBuf(R, O, k - 1), k - 1))
    BY NsOnHome
  <2> QED
    BY <2>2, <2>3
<1> HIDE DEF ab, St
<1>4. Is(st)
  <2>1. ASSUME NEW ch \in 0 .. m_channels
        PROVE  St(ch) = IF ch = 0 THEN ab
                        ELSE OnFloats(AgcOn(st[ch - 1], ch - 1), ch - 1, "ns")
    BY <1>2, <1>3
  <2> QED
    BY <2>1
<1>5. Is(after)
  <2> HIDE DEF Is, st
  <2> QED
    BY <1>4
<1> HIDE DEF after
<1>6. \A ch \in 0 .. m_channels : after[ch] =
         IF ch = 0 THEN ab ELSE OnFloats(AgcOn(after[ch - 1], ch - 1), ch - 1, "ns")
  BY <1>5
<1>7. st[0] = St(0) /\ \A k \in 1 .. m_channels : st[k] = St(k) /\ st[k - 1] = St(k - 1)
  OBVIOUS
<1> HIDE DEF st, Is
<1>8. after[0] = st[0]
  BY <1>2, <1>6, <1>7
<1>9. \A k \in 1 .. m_channels : after[k - 1] = st[k - 1] => after[k] = st[k]
  BY <1>3, <1>6, <1>7
<1>10. after[m_channels] = st[m_channels]
  BY <1>8, <1>9, LoopAgrees
<1>11. st[m_channels] = St(m_channels)
  BY DEF st
<1> QED
  BY <1>1, <1>10, <1>11 DEF St, ab

SetBoth(ab, c, s) == [ab EXCEPT !.channels = c, !.split = s]
SetBothBack(ab, c, s) == [ab EXCEPT !.split = s, !.channels = c]

\* Replacing both buffers of a frame with bands.
LEMMA BandedParts ==
  ASSUME NEW c, NEW s, NEW d, NEW t
  PROVE  SetBoth(Banded(c, s), d, t) = Banded(d, t) /\ SetBothBack(Banded(c, s), d, t) = Banded(d, t)
<1>1. ASSUME NEW ab, NEW x, NEW y
      PROVE  /\ SetBoth(ab, x, y) = SetSplit(SetChannels(ab, x), y)
             /\ SetBothBack(ab, x, y) = SetChannels(SetSplit(ab, y), x)
  BY DEF SetBoth, SetBothBack, SetChannels, SetSplit
<1> QED
  BY <1>1, AbParts

\* Splitting, at the rates that split, makes the bands the frame.
LEMMA SplitClosed ==
  ASSUME NEW fr, NEW R, NEW O, SplitRate <=> Splits(fr)
  PROVE  Split(Box(fr, BufI(R, O), BufB(O, O))) =
           Home(fr, BufI(R, O), BufB(O, O), BufI(R, O))
<1>1. CASE Splits(fr)
  <2>1. Split(Box(fr, BufI(R, O), BufB(O, O))) =
          SplitIntoFrequencyBands(Banded(BufI(R, O), BufB(O, O)))
    BY <1>1, Zenon DEF Split, Box
  <2>2. ASSUME NEW ab
        PROVE  SplitIntoFrequencyBands(ab) =
                 SetBoth(ab, ibuf_const(ab.channels),
                         SetAllI(ibuf(ab.split), ibuf_const(ab.channels).i))
    BY Zenon DEF SplitIntoFrequencyBands, SetBoth, SetAllI
  <2>3. ibuf_const(BufI(R, O)) = BufI(R, O) /\ BufI(R, O).i = R
        /\ ibuf(BufB(O, O)) = BufI(O, O) /\ SetAllI(BufI(O, O), R) = BufI(R, O)
    BY BufCalls, BufWrites
  <2>4. Banded(BufI(R, O), BufB(O, O)).channels = BufI(R, O)
        /\ Banded(BufI(R, O), BufB(O, O)).split = BufB(O, O)
    BY AbParts
  <2>5. SplitIntoFrequencyBands(Banded(BufI(R, O), BufB(O, O))) =
          SetBoth(Banded(BufI(R, O), BufB(O, O)), BufI(R, O), BufI(R, O))
    BY <2>2, <2>3, <2>4
  <2> QED
    BY <1>1, <2>1, <2>5, BandedParts DEF Home
<1>2. CASE ~Splits(fr)
  BY <1>2, Zenon DEF Split, Box, Home
<1> QED
  BY <1>1, <1>2

\* After merging, data(ch) is what suppression left in the floats of the
\* bands.
LEMMA MergeClosed ==
  ASSUME NEW fr, NEW R, NEW O, NEW I, NEW G, NEW Y, NEW ch, SplitRate <=> Splits(fr)
  PROVE  Data(Merge(Home(fr, BufI(R, O), Y, BufF(I, G))), ch) = G[ch]
<1>1. CASE Splits(fr)
  <2> DEFINE ab == Banded(BufI(R, O), BufF(I, G))
  <2>1. Merge(Home(fr, BufI(R, O), Y, BufF(I, G))) = MergeFrequencyBands(ab)
    BY <1>1, Zenon DEF Merge, Home
  <2>2. MergeFrequencyBands(ab) =
          SetBothBack(ab, SetAllI(ibuf(ab.channels), ibuf_const(ab.split).i), ibuf_const(ab.split))
    BY Zenon DEF MergeFrequencyBands, SetBothBack, SetAllI
  <2>3. ibuf_const(BufF(I, G)) = BufB(G, G) /\ BufB(G, G).i = G
        /\ ibuf(BufI(R, O)) = BufI(R, O) /\ SetAllI(BufI(R, O), G) = BufI(G, O)
    BY BufCalls, BufWrites
  <2>4. ab.channels = BufI(R, O) /\ ab.split = BufF(I, G)
    BY AbParts
  <2>5. MergeFrequencyBands(ab) = SetBothBack(ab, BufI(G, O), BufB(G, G))
    BY <2>2, <2>3, <2>4
  <2>6. MergeFrequencyBands(ab) = Banded(BufI(G, O), BufB(G, G))
    BY <2>5, BandedParts
  <2>7. Box(fr, BufI(G, O), BufB(G, G)) = Banded(BufI(G, O), BufB(G, G))
    BY <1>1 DEF Box
  <2> QED
    BY <2>1, <2>6, <2>7, BoxData
<1>2. CASE ~Splits(fr)
  <2>1. Merge(Home(fr, BufI(R, O), Y, BufF(I, G))) = Box(fr, BufF(I, G), Y)
    BY <1>2, Zenon DEF Merge, Home, Box
  <2> QED
    BY <2>1, BoxData
<1> QED
  BY <1>1, <1>2

(***************************************************************************)
(* The loop of processUseRnnoise without gain control.                     *)
(***************************************************************************)
RnnOn(ab, ch) == WithData(AgcOn(ab, ch), ch, Through("rnn", Data(AgcOn(ab, ch), ch)))

RnnLoop(ab) ==
  LET after[ch \in 0 .. m_channels] == IF ch = 0 THEN ab ELSE RnnOn(after[ch - 1], ch - 1)
  IN IF m_channels > 0 THEN after[m_channels] ELSE ab

RnnRows(R) == [ch \in DOMAIN R |-> Through("rnn", R[ch])]

\* The loop of processUseRnnoise without gain control, in closed form.
LEMMA RnnLoopClosed ==
  ASSUME NEW fr, NEW Y, NEW R, NEW O, NEW C \in Nat, Over(R, 0 .. C - 1),
         m_channels \in Nat \ {0}, m_channels <= C, ~m_doAgc
  PROVE  RnnLoop(Box(fr, BufI(R, O), Y)) =
           Box(fr, BufI(Rows(RnnRows(R), R, m_channels), O), Y)
<1> DEFINE ab == Box(fr, BufI(R, O), Y)
           N == RnnRows(R)
           St(k) == Box(fr, BufI(Rows(N, R, k), O), Y)
           Is(g) == g = [ch \in 0 .. m_channels |->
                           IF ch = 0 THEN ab ELSE RnnOn(g[ch - 1], ch - 1)]
           st == [k \in 0 .. m_channels |-> St(k)]
           after == CHOOSE g : Is(g)
<1>1. RnnLoop(ab) = after[m_channels]
  BY DEF RnnLoop
<1>2. \A k \in 0 .. C - 1 : N[k] = Through("rnn", R[k])
  BY DEF RnnRows, Over
<1> HIDE DEF N
<1>3. ab = St(0)
  BY NoRows
<1>4. ASSUME NEW k \in 1 .. m_channels
      PROVE  RnnOn(St(k - 1), k - 1) = St(k)
  <2>1. k - 1 \in 0 .. C - 1 /\ (k - 1) + 1 = k
    OBVIOUS
  <2>2. Rows(N, R, k - 1)[k - 1] = R[k - 1] /\ SetAt(Rows(N, R, k - 1), k - 1, N[k - 1]) = Rows(N, R, k)
    BY <2>1, RowsStep
  <2>3. N[k - 1] = Through("rnn", R[k - 1])
    BY <1>2, <2>1
  <2>4. ASSUME NEW a, NEW ch
        PROVE  RnnOn(a, ch) = WithData(a, ch, Through("rnn", Data(a, ch)))
    BY Zenon DEF RnnOn, AgcOn
  <2>5. Data(St(k - 1), k - 1) = R[k - 1]
    BY <2>2, BoxData
  <2>6. RnnOn(St(k - 1), k - 1) = WithData(St(k - 1), k - 1, N[k - 1])
    BY <2>3, <2>4, <2>5
  <2>7. WithData(St(k - 1), k - 1, N[k - 1]) =
          Box(fr, BufI(SetAt(Rows(N, R, k - 1), k - 1, N[k - 1]), O), Y)
    BY BoxWrite
  <2> QED
    BY <2>2, <2>6, <2>7
<1> HIDE DEF ab, St
<1>5. Is(st)
  <2>1. ASSUME NEW ch \in 0 .. m_channels
        PROVE  St(ch) = IF ch = 0 THEN ab ELSE RnnOn(st[ch - 1], ch - 1)
    BY <1>3, <1>4
  <2> QED
    BY <2>1
<1>6. Is(after)
  <2> HIDE DEF Is, st
  <2> QED
    BY <1>5
<1> HIDE DEF after
<1>7. \A ch \in 0 .. m_channels : after[ch] = IF ch = 0 THEN ab ELSE RnnOn(after[ch - 1], ch - 1)
  BY <1>6
<1>8. st[0] = St(0) /\ \A k \in 1 .. m_channels : st[k] = St(k) /\ st[k - 1] = St(k - 1)
  OBVIOUS
<1> HIDE DEF st, Is
<1>9. after[0] = st[0]
  BY <1>3, <1>7, <1>8
<1>10. \A k \in 1 .. m_channels : after[k - 1] = st[k - 1] => after[k] = st[k]
  BY <1>4, <1>7, <1>8
<1>11. after[m_channels] = st[m_channels]
  BY <1>9, <1>10, LoopAgrees
<1>12. st[m_channels] = St(m_channels)
  BY DEF st
<1> QED
  BY <1>1, <1>11, <1>12 DEF St, ab, N

(***************************************************************************)
(* Back into the caller's frame.                                           *)
(***************************************************************************)
\* Place x of an interleaved frame is sample x \div c of channel x % c.
LEMMA PlaceOf ==
  ASSUME NEW c \in Nat, NEW n \in Nat, NEW x \in 0 .. c * n - 1
  PROVE  x % c \in 0 .. c - 1 /\ x \div c \in 0 .. n - 1 /\ (x % c) + (x \div c) * c = x
<1>1. c > 0 /\ x \in Nat /\ x < c * n /\ c * n \in Nat
  <2>1. c = 0 => c * n = 0
    OBVIOUS
  <2>2. c * n \in Nat
    OBVIOUS
  <2> QED
    BY <2>1, <2>2
<1>2. x % c \in 0 .. c - 1 /\ x = (c * (x \div c)) + (x % c) /\ x \div c \in Nat
  BY <1>1, Z3
<1>3. x \div c < n
  <2> DEFINE q == x \div c
  <2>1. q \in Nat /\ c * q <= x
    BY <1>1, <1>2
  <2> HIDE DEF q
  <2>2. CASE q >= n
    <3>1. PICK e \in Nat : q = n + e
      BY <2>1, <2>2
    <3>2. c * q = c * n + c * e /\ c * e \in Nat /\ c * q \in Nat
      BY <3>1, Z3
    <3> QED
      BY <1>1, <2>1, <3>2
  <2> QED
    BY <2>1, <2>2 DEF q
<1>4. c * (x \div c) = (x \div c) * c
  BY <1>1, <1>2
<1> QED
  BY <1>1, <1>2, <1>3, <1>4

\* A sample: its place in the caller's frame and its stages.
Smp(from, stages) == [from |-> from, stages |-> stages]

\* Sample j of channel ch of the frame ab is the one from its place, after the
\* given stages.
Treated(ab, n, stages) ==
  \A ch \in 0 .. m_channels - 1, j \in 0 .. n - 1 :
    Data(ab, ch)[j] = Smp(ch + j * m_channels, stages)

\* If every channel is treated, the interleaved frame has every sample at its
\* place.
LEMMA ResultTreated ==
  ASSUME NEW ab, NEW n \in Nat, NEW stages, m_channels \in Nat, Treated(ab, n, stages)
  PROVE  \A x \in DOMAIN Result(ab, n) : Result(ab, n)[x] = Smp(x, stages)
<1> DEFINE c == m_channels
<1>1. DOMAIN Result(ab, n) = 0 .. c * n - 1
  BY DEF Result, Interleaved
<1>2. ASSUME NEW x \in 0 .. c * n - 1
      PROVE  Result(ab, n)[x] = Smp(x, stages)
  <2> DEFINE i == x % c
             j == x \div c
  <2>1. i \in 0 .. c - 1 /\ j \in 0 .. n - 1 /\ i + j * c = x
    BY PlaceOf
  <2>2. Result(ab, n)[x] = Data(ab, i)[j]
    <3> DEFINE rows == [ch \in 0 .. m_channels - 1 |-> Data(ab, ch)]
    <3>1. Result(ab, n)[x] = rows[i][j]
      BY DEF Result, Interleaved
    <3>2. rows[i] = Data(ab, i)
      BY <2>1
    <3> QED
      BY <3>1, <3>2
  <2> HIDE DEF i, j
  <2>3. Data(ab, i)[j] = Smp(i + j * c, stages)
    BY <2>1 DEF Treated
  <2> QED
    BY <2>1, <2>2, <2>3
<1> QED
  BY <1>1, <1>2

\* A stage is appended to the stages of every sample it sees.
Staged(r, z) == [r EXCEPT !.stages = Append(@, z)]

\* A stage is appended to a sample's stages.
LEMMA SmpStaged ==
  ASSUME NEW from, NEW old, NEW z
  PROVE  Staged(Smp(from, old), z) = Smp(from, Append(old, z))
BY DEF Staged, Smp

\* A stage leaves a channel its length and sees every sample.
LEMMA ThroughAt ==
  ASSUME NEW s, NEW k \in DOMAIN s, NEW z
  PROVE  DOMAIN Through(z, s) = DOMAIN s /\ Through(z, s)[k] = Staged(s[k], z)
BY Zenon DEF Through, Staged

\* Appending to sequences of no and of one element.
LEMMA AppendOne ==
  ASSUME NEW a, NEW b
  PROVE  Append(<<>>, a) = <<a>> /\ Append(<<a>>, b) = <<a, b>>
<1>1. Append(<<>>, a) = <<a>>
  OBVIOUS
<1>2. Append(<<a>>, b) = <<a, b>>
  <2> DEFINE S == {a, b}
  <2>1. <<a>> \in Seq(S) /\ b \in S /\ Len(<<a>>) = 1
    OBVIOUS
  <2>2. Append(<<a>>, b) \in Seq(S) /\ Len(Append(<<a>>, b)) = 2
    BY <2>1
  <2>3. Append(<<a>>, b)[1] = a /\ Append(<<a>>, b)[2] = b
    BY <2>1
  <2>4. <<a, b>> \in Seq(S) /\ Len(<<a, b>>) = 2 /\ <<a, b>>[1] = a /\ <<a, b>>[2] = b
    OBVIOUS
  <2> DEFINE p == Append(<<a>>, b)
             q == <<a, b>>
  <2>5. p \in Seq(S) /\ q \in Seq(S) /\ Len(p) = 2 /\ Len(q) = 2 /\ p[1] = q[1] /\ p[2] = q[2]
    BY <2>2, <2>3, <2>4
  <2> HIDE DEF p, q, S
  <2>6. \A k \in 1 .. Len(p) : p[k] = q[k]
    BY <2>5
  <2>7. p = q
    BY <2>5, <2>6, SeqEqual
  <2> QED
    BY <2>7 DEF p, q
<1> QED
  BY <1>1, <1>2

One(a) == <<a>>
Two(a, b) == <<a, b>>

\* Channel ch of the caller's frame.
Mine(c, n, ch) == Deinterleaved(Fresh(c, n), c, n)[ch]

\* The samples of the caller's frame after one stage, and after two.
LEMMA StagedSamples ==
  ASSUME NEW c \in Nat, NEW n \in Nat, NEW ch \in 0 .. c - 1, NEW j \in 0 .. n - 1, NEW a, NEW b
  PROVE  /\ Through(a, Mine(c, n, ch))[j] = Smp(ch + j * c, One(a))
         /\ Through(b, Through(a, Mine(c, n, ch)))[j] = Smp(ch + j * c, Two(a, b))
<1> DEFINE mine == Mine(c, n, ch)
           y == ch + j * c
<1>1. y \in 0 .. c * n - 1
  <2>1. PICK e \in Nat : n = j + 1 + e
    BY SMT
  <2>2. c * n = j * c + c + c * e /\ c * e \in Nat /\ j * c \in Nat /\ c * n \in Nat
    BY <2>1, Z3
  <2> QED
    BY <2>2
<1>2. DOMAIN mine = 0 .. n - 1 /\ mine[j] = Smp(y, <<>>)
  <2>1. mine = [k \in 0 .. n - 1 |-> Fresh(c, n)[ch + k * c]]
    BY DEF Deinterleaved, Mine
  <2>2. mine[j] = Fresh(c, n)[y]
    BY <2>1
  <2>3. Fresh(c, n)[y] = Smp(y, <<>>)
    BY <1>1 DEF Fresh, Smp
  <2> QED
    BY <2>1, <2>2, <2>3
<1> HIDE DEF mine, y
<1>3. Append(<<>>, a) = <<a>> /\ Append(<<a>>, b) = <<a, b>>
  BY AppendOne
<1>4. j \in DOMAIN mine
  BY <1>2
<1>5. DOMAIN Through(a, mine) = DOMAIN mine /\ Through(a, mine)[j] = Staged(mine[j], a)
  BY <1>4, ThroughAt, Zenon
<1>6. Through(a, mine)[j] = Smp(y, <<a>>)
  <2>1. Staged(Smp(y, <<>>), a) = Smp(y, Append(<<>>, a))
    BY SmpStaged, Zenon
  <2> QED
    BY <1>2, <1>3, <1>5, <2>1, Zenon
<1>7. Through(b, Through(a, mine))[j] = Staged(Through(a, mine)[j], b)
  BY <1>4, <1>5, ThroughAt, Zenon
<1>8. Staged(Smp(y, <<a>>), b) = Smp(y, Append(<<a>>, b))
  BY SmpStaged, Zenon
<1>9. Through(b, Through(a, mine))[j] = Smp(y, <<a, b>>)
  BY <1>3, <1>6, <1>7, <1>8, Zenon
<1> QED
  BY <1>6, <1>9, Zenon DEF mine, y, One, Two

\* One stage on a channel of the caller's frame.
LEMMA StagedOnce ==
  ASSUME NEW c \in Nat, NEW n \in Nat, NEW ch \in 0 .. c - 1, NEW j \in 0 .. n - 1, NEW a
  PROVE  Through(a, Mine(c, n, ch))[j] = Smp(ch + j * c, One(a))
BY StagedSamples

\* Two stages on a channel of the caller's frame.
LEMMA StagedTwice ==
  ASSUME NEW c \in Nat, NEW n \in Nat, NEW ch \in 0 .. c - 1, NEW j \in 0 .. n - 1, NEW a, NEW b
  PROVE  Through(b, Through(a, Mine(c, n, ch)))[j] = Smp(ch + j * c, Two(a, b))
BY StagedSamples

\* Two sequences of one element, concatenated.
LEMMA ConcatOne ==
  ASSUME NEW a, NEW b
  PROVE  <<a>> \o <<b>> = <<a, b>>
<1> DEFINE S == {a, b}
           p == <<a>> \o <<b>>
           q == <<a, b>>
<1>1. <<a>> \in Seq(S) /\ <<b>> \in Seq(S) /\ Len(<<a>>) = 1 /\ Len(<<b>>) = 1
  OBVIOUS
<1>2. p \in Seq(S) /\ Len(p) = 2 /\ p[1] = a /\ p[2] = b
  BY <1>1
<1>3. q \in Seq(S) /\ Len(q) = 2 /\ q[1] = a /\ q[2] = b
  OBVIOUS
<1> HIDE DEF p, q, S
<1>4. \A k \in 1 .. Len(p) : p[k] = q[k]
  BY <1>2, <1>3
<1>5. p = q
  BY <1>2, <1>3, <1>4, SeqEqual
<1> QED
  BY <1>5 DEF p, q

\* The stages of a session, as sequences.
LEMMA PromisedStages ==
  /\ ready = "ns" /\ m_doAgc => Promised = <<"agc", "ns">>
  /\ ready = "ns" /\ ~m_doAgc => Promised = <<"ns">>
  /\ ready = "rnn" /\ ~m_doAgc => Promised = <<"rnn">>
<1>1. <<"agc">> \o <<"ns">> = <<"agc", "ns">>
  BY ConcatOne, Zenon
<1>2. <<>> \o <<"ns">> = <<"ns">> /\ <<>> \o <<"rnn">> = <<"rnn">>
  OBVIOUS
<1>3. ASSUME ready = "ns", m_doAgc PROVE Promised = <<"agc">> \o <<"ns">>
  BY <1>3, Zenon DEF Promised
<1>4. ASSUME ready = "ns", ~m_doAgc PROVE Promised = <<>> \o <<"ns">>
  BY <1>4, Zenon DEF Promised
<1>5. ASSUME ready = "rnn", ~m_doAgc PROVE Promised = <<>> \o <<"rnn">>
  <2>1. ready # "ns"
    BY <1>5
  <2> QED
    BY <1>5, <2>1, Zenon DEF Promised
<1> QED
  BY <1>1, <1>2, <1>3, <1>4, <1>5, Zenon

\* What the loading loop leaves in the rows, and what they are indexed by.
LEMMA LoadedRows ==
  ASSUME NEW full, NEW n \in Nat, NEW C \in Nat, NEW c \in 0 .. C
  PROVE  LET old == Old(C, n)
         IN  /\ Over(old, 0 .. C - 1) /\ Over(Rows(full, old, c), 0 .. C - 1)
             /\ \A ch \in 0 .. c - 1 : Rows(full, old, c)[ch] = full[ch]
<1> DEFINE old == Old(C, n)
<1>1. DOMAIN old = 0 .. C - 1 /\ Over(old, 0 .. C - 1)
  BY DEF Old, Over
<1> HIDE DEF old
<1>2. Rows(full, old, c) = [ch \in 0 .. C - 1 |-> IF ch < c THEN full[ch] ELSE old[ch]]
  BY <1>1 DEF Rows
<1>3. Over(Rows(full, old, c), 0 .. C - 1)
  BY <1>2 DEF Over
<1>4. ASSUME NEW ch \in 0 .. c - 1 PROVE Rows(full, old, c)[ch] = full[ch]
  BY <1>2
<1> QED
  BY <1>1, <1>3, <1>4 DEF old

\* A row that was replaced.
LEMMA MappedRows ==
  ASSUME NEW N, NEW R, NEW C \in Nat, Over(R, 0 .. C - 1), NEW c \in 0 .. C, NEW ch \in 0 .. c - 1
  PROVE  Rows(N, R, c)[ch] = N[ch] /\ ch \in DOMAIN R
<1>1. DOMAIN R = 0 .. C - 1
  BY DEF Over
<1>2. Rows(N, R, c) = [x \in 0 .. C - 1 |-> IF x < c THEN N[x] ELSE R[x]]
  BY <1>1 DEF Rows
<1> QED
  BY <1>1, <1>2

\* What a session of the given kind promises of its samples.
Stages(z) == IF m_doAgc THEN <<"agc", z>> ELSE <<z>>

\* Every sample of the frame has gone through gain control, if asked for, and
\* noise suppression once the loop over the bands and the merge are done.
LEMMA NsTreated ==
  ASSUME NEW n \in Nat, m_channels \in Nat \ {0}, capture_buffer.channels \in Nat, Fits,
         m_frequency \in NsRates, m_doAgc \in BOOLEAN
  PROVE  Treated(Merge(NsLoop(Split(Loaded(n)))), n, Stages("ns"))
<1> DEFINE c == m_channels
           C == capture_buffer.channels
           fr == capture_buffer.frames
           full == Deinterleaved(Fresh(c, n), c, n)
           O == Old(C, n)
           R == Rows(full, O, c)
           G == Rows(NsRows(R), R, c)
           H == Halfway(R, c)
<1>1. SplitRate <=> Splits(fr)
  BY DEF SplitRate, Splits, Fits, NsRates
<1>2. c \in 0 .. C
  BY DEF Fits
<1>3. Loaded(n) = Box(fr, BufI(R, O), BufB(O, O))
  BY LoadedClosed
<1>4. Over(R, 0 .. C - 1) /\ \A ch \in 0 .. c - 1 : R[ch] = full[ch]
  BY <1>2, LoadedRows
<1> HIDE DEF R, O, full, C, fr
<1>5. Split(Loaded(n)) = Home(fr, BufI(R, O), BufB(O, O), BufI(R, O))
  BY <1>1, <1>3, SplitClosed
<1>6. NsLoop(Split(Loaded(n))) = Home(fr, BufI(R, O), BufB(O, O), NsBuf(R, O, c))
  <2>1. C \in Nat /\ c <= C
    BY <1>2 DEF C
  <2> QED
    BY <1>4, <1>5, <2>1, NsLoopClosed
<1>7. NsBuf(R, O, c) = BufF(H, G)
  BY Zenon DEF NsBuf
<1> HIDE DEF H, G
<1>8. ASSUME NEW ch \in 0 .. c - 1, NEW j \in 0 .. n - 1
      PROVE  Data(Merge(NsLoop(Split(Loaded(n)))), ch)[j] = Smp(ch + j * c, Stages("ns"))
  <2>1. Data(Merge(NsLoop(Split(Loaded(n)))), ch) = G[ch]
    <3>1. Data(Merge(Home(fr, BufI(R, O), BufB(O, O), BufF(H, G))), ch) = G[ch]
      BY <1>1, MergeClosed
    <3>2. NsLoop(Split(Loaded(n))) = Home(fr, BufI(R, O), BufB(O, O), BufF(H, G))
      BY <1>6, <1>7, Zenon
    <3> QED
      BY <3>1, <3>2, Zenon
  <2>2. G[ch] = Suppressed(full[ch])
    <3>1. G[ch] = NsRows(R)[ch] /\ ch \in DOMAIN R
      BY <1>2, <1>4, MappedRows DEF G, C
    <3>2. NsRows(R)[ch] = Suppressed(R[ch])
      BY <3>1, Zenon DEF NsRows
    <3> QED
      BY <1>4, <3>1, <3>2
  <2>3. Suppressed(full[ch])[j] = Smp(ch + j * c, Stages("ns"))
    <3>1. /\ Through("ns", full[ch])[j] = Smp(ch + j * c, <<"ns">>)
          /\ Through("ns", Through("agc", full[ch]))[j] = Smp(ch + j * c, <<"agc", "ns">>)
      <4>1. c \in Nat
        OBVIOUS
      <4>2. full[ch] = Mine(c, n, ch)
        BY Zenon DEF Mine, full
      <4>3. Through("ns", Mine(c, n, ch))[j] = Smp(ch + j * c, One("ns"))
        BY <4>1, StagedOnce
      <4>4. Through("ns", Through("agc", Mine(c, n, ch)))[j] = Smp(ch + j * c, Two("agc", "ns"))
        BY <4>1, StagedTwice
      <4> QED
        BY <4>2, <4>3, <4>4, Zenon DEF One, Two
    <3>2. CASE m_doAgc
      BY <3>1, <3>2, Zenon DEF Suppressed, Stages
    <3>3. CASE ~m_doAgc
      BY <3>1, <3>3, Zenon DEF Suppressed, Stages
    <3> QED
      BY <3>2, <3>3
  <2> QED
    BY <2>1, <2>2, <2>3, Zenon
<1> QED
  BY <1>8, Zenon DEF Treated

\* Without gain control, every sample of the frame has gone through rnnoise.
LEMMA RnnTreated ==
  ASSUME NEW n \in Nat, m_channels \in Nat \ {0}, capture_buffer.channels \in Nat, Fits, ~m_doAgc
  PROVE  Treated(RnnLoop(Loaded(n)), n, <<"rnn">>)
<1> DEFINE c == m_channels
           C == capture_buffer.channels
           fr == capture_buffer.frames
           full == Deinterleaved(Fresh(c, n), c, n)
           O == Old(C, n)
           R == Rows(full, O, c)
           G == Rows(RnnRows(R), R, c)
<1>2. c \in 0 .. C
  BY DEF Fits
<1>3. Loaded(n) = Box(fr, BufI(R, O), BufB(O, O))
  BY LoadedClosed
<1>4. Over(R, 0 .. C - 1) /\ \A ch \in 0 .. c - 1 : R[ch] = full[ch]
  BY <1>2, LoadedRows
<1> HIDE DEF R, O, full, C, fr
<1>5. RnnLoop(Loaded(n)) = Box(fr, BufI(G, O), BufB(O, O))
  <2>1. C \in Nat /\ c <= C
    BY <1>2 DEF C
  <2> QED
    BY <1>3, <1>4, <2>1, RnnLoopClosed
<1> HIDE DEF G
<1>6. ASSUME NEW ch \in 0 .. c - 1, NEW j \in 0 .. n - 1
      PROVE  Data(RnnLoop(Loaded(n)), ch)[j] = Smp(ch + j * c, <<"rnn">>)
  <2>1. Data(RnnLoop(Loaded(n)), ch) = G[ch]
    <3>1. Data(Box(fr, BufI(G, O), BufB(O, O)), ch) = G[ch]
      BY BoxData
    <3> QED
      BY <1>5, <3>1, Zenon
  <2>2. G[ch] = Through("rnn", full[ch])
    <3>1. G[ch] = RnnRows(R)[ch] /\ ch \in DOMAIN R
      BY <1>2, <1>4, MappedRows DEF G, C
    <3>2. RnnRows(R)[ch] = Through("rnn", R[ch])
      BY <3>1, Zenon DEF RnnRows
    <3> QED
      BY <1>4, <3>1, <3>2
  <2>3. Through("rnn", full[ch])[j] = Smp(ch + j * c, <<"rnn">>)
    <3>1. c \in Nat
      OBVIOUS
    <3>2. full[ch] = Mine(c, n, ch)
      BY Zenon DEF Mine, full
    <3>3. Through("rnn", Mine(c, n, ch))[j] = Smp(ch + j * c, One("rnn"))
      BY <3>1, StagedOnce
    <3> QED
      BY <3>2, <3>3, Zenon DEF One
  <2> QED
    BY <2>1, <2>2, <2>3, Zenon
<1> QED
  BY <1>6, Zenon DEF Treated

-----------------------------------------------------------------------------
(***************************************************************************)
(* What a processing call returns.                                         *)
(***************************************************************************)
\* A noise suppression session with channels is at a rate WebRtcNs_Init
\* accepts.
SessionKnown == ready = "ns" /\ m_channels > 0 => m_frequency \in NsRates

PInv == SessionKnown /\ ProcessedInPlace

\* The types of a session's parameters.
LEMMA SessionTyped ==
  ASSUME AInv
  PROVE  /\ m_channels \in Int /\ capture_buffer.channels \in Nat /\ m_doAgc \in BOOLEAN
         /\ ready = "ns" => m_channels \in Nat
<1>1. capture_buffer.channels \in Nat /\ m_doAgc \in BOOLEAN /\ m_channels \in Int
  <2>1. /\ capture_buffer \in [frames : Nat, channels : Counts \cup {0}]
        /\ m_channels \in Channels \cup {0}
        /\ {alive, m_doAgc, shifted, failed, overrun} \subseteq BOOLEAN
    BY PTL DEF AInv, TypeOK
  <2>2. m_doAgc \in BOOLEAN
    BY <2>1, Zenon
  <2>a. m_channels \in Channels \cup {0}
    BY <2>1, Zenon
  <2>b. m_channels \in Int
    BY <2>a, ChannelsAssumption
  <2>c. Counts \cup {0} \subseteq Nat
    <3>1. ASSUME NEW x \in Counts PROVE x \in Nat
      <4>1. x \in Channels /\ x > 0
        BY DEF Counts
      <4>2. x \in Int
        BY <4>1, ChannelsAssumption, Zenon
      <4> QED
        BY <4>1, <4>2
    <3> QED
      BY <3>1
  <2>3. Counts \cup {0} \subseteq Nat /\ m_channels \in Int
    BY <2>b, <2>c, Zenon
  <2>4. capture_buffer.channels \in Nat
    BY <2>1, <2>3
  <2> QED
    BY <2>2, <2>3, <2>4
<1>2. Len(m_nsHandles) \in Nat
  BY DEF AInv, VectorsOwn, OwnVector
<1>3. ready = "ns" => m_channels \in Nat
  BY <1>1, <1>2 DEF AInv, IndicesInRange
<1> QED
  BY <1>1, <1>3

\* What a noise suppression session does to a frame is what it promises; with
\* no channels there is nothing to do.
LEMMA NsPromised ==
  ASSUME AInv, SessionKnown, ready = "ns", Fits, NEW n \in Samples
  PROVE  Treated(Merge(NsLoop(Split(Loaded(n)))), n, Promised)
<1> DEFINE done == Merge(NsLoop(Split(Loaded(n))))
<1>1. m_channels \in Nat /\ capture_buffer.channels \in Nat /\ m_doAgc \in BOOLEAN
  BY SessionTyped
<1>2. n \in Nat
  BY SamplesAssumption
<1>3. CASE m_channels = 0
  <2>1. 0 .. m_channels - 1 = {}
    BY <1>3
  <2> QED
    BY <2>1, Zenon DEF Treated
<1>4. CASE m_channels # 0
  <2>1. m_channels \in Nat \ {0} /\ m_frequency \in NsRates
    BY <1>1, <1>4 DEF SessionKnown
  <2>2. Treated(done, n, Stages("ns"))
    BY <1>1, <1>2, <2>1, NsTreated
  <2>3. Promised = Stages("ns")
    BY <1>1, PromisedStages, Zenon DEF Stages
  <2> QED
    BY <2>2, <2>3, Zenon
<1> QED
  BY <1>3, <1>4

\* The same for an rnnoise session without gain control.
LEMMA RnnPromised ==
  ASSUME AInv, SessionKnown, ready = "rnn", ~m_doAgc, Fits, NEW n \in Samples
  PROVE  Treated(RnnLoop(Loaded(n)), n, Promised)
<1>1. m_channels \in Int /\ capture_buffer.channels \in Nat
  BY SessionTyped
<1>2. n \in Nat
  BY SamplesAssumption
<1>3. Treated(RnnLoop(Loaded(n)), n, <<"rnn">>)
  <2>1. CASE m_channels > 0
    BY <1>1, <1>2, <2>1, RnnTreated
  <2>2. CASE ~(m_channels > 0)
    <3>1. 0 .. m_channels - 1 = {}
      BY <1>1, <2>2
    <3> QED
      BY <3>1, Zenon DEF Treated
  <2> QED
    BY <2>1, <2>2
<1>4. Promised = <<"rnn">>
  BY PromisedStages, Zenon
<1> QED
  BY <1>3, <1>4, Zenon

\* A treated frame that is interleaved back is in place.
LEMMA PutBack ==
  ASSUME AInv, NEW n \in Samples, NEW ab, Treated(ab, n, Promised),
         out' = Result(ab, n), Promised' = Promised
  PROVE  InPlace'
<1>1. n \in Nat /\ m_channels \in Int
  BY SamplesAssumption, SessionTyped
<1>2. \A x \in DOMAIN Result(ab, n) : Result(ab, n)[x] = Smp(x, Promised)
  <2>1. CASE m_channels \in Nat
    BY <1>1, <2>1, ResultTreated
  <2>2. CASE m_channels \notin Nat
    <3>1. DOMAIN Result(ab, n) = 0 .. m_channels * n - 1
      BY DEF Result, Interleaved
    <3>2. m_channels * n <= 0 /\ m_channels * n \in Int
      BY <1>1, <2>2
    <3>3. 0 .. m_channels * n - 1 = {}
      BY <3>2
    <3> QED
      BY <3>1, <3>3
  <2> QED
    BY <2>1, <2>2
<1> QED
  BY <1>2, Zenon DEF InPlace, Smp

\* processCaptureStream returns what its loop leaves, and keeps the session.
LEMMA NsReturns ==
  ASSUME NEW n \in Samples, processCaptureStream(n)
  PROVE  /\ out' = Result(Merge(NsLoop(Split(Loaded(n)))), n)
         /\ UNCHANGED <<m_frequency, m_channels, m_doAgc, ready>>
         /\ ready = "ns" /\ Fits
<1>1. out' = Result(Merge(NsLoop(Split(Loaded(n)))), n)
  BY Zenon DEF processCaptureStream, ForChannels, NsLoop
<1> QED
  BY <1>1, Zenon DEF processCaptureStream, config

\* So does processUseRnnoise; without gain control it neither splits nor
\* merges.
LEMMA RnnReturns ==
  ASSUME NEW n \in Samples, processUseRnnoise(n)
  PROVE  /\ ~m_doAgc => out' = Result(RnnLoop(Loaded(n)), n)
         /\ UNCHANGED <<m_frequency, m_channels, m_doAgc, ready>>
         /\ ready = "rnn" /\ Fits
<1>1. ASSUME ~m_doAgc PROVE out' = Result(RnnLoop(Loaded(n)), n)
  BY <1>1, Zenon DEF processUseRnnoise, ForChannels, RnnLoop, RnnOn
<1> QED
  BY <1>1, Zenon DEF processUseRnnoise, config

\* A step that keeps the session keeps what is known of it and what it
\* promises.
LEMMA KeptSession ==
  ASSUME SessionKnown, UNCHANGED <<m_frequency, m_channels, m_doAgc, ready>>
  PROVE  SessionKnown' /\ Promised' = Promised
BY Zenon DEF SessionKnown, Promised

\* processCaptureStream keeps PInv.
LEMMA NsProcessPInv ==
  ASSUME AInv, PInv, NEW n \in Samples, processCaptureStream(n)
  PROVE  PInv'
<1> DEFINE done == Merge(NsLoop(Split(Loaded(n))))
<1>1. /\ out' = Result(done, n) /\ ready = "ns" /\ Fits
      /\ UNCHANGED <<m_frequency, m_channels, m_doAgc, ready>>
  BY NsReturns
<1>2. SessionKnown' /\ Promised' = Promised
  BY <1>1, KeptSession DEF PInv
<1>3. Treated(done, n, Promised)
  BY <1>1, NsPromised DEF PInv
<1> HIDE DEF done
<1>4. InPlace'
  BY <1>1, <1>2, <1>3, PutBack
<1> QED
  BY <1>2, <1>4, Zenon DEF PInv, ProcessedInPlace

\* processUseRnnoise keeps PInv.
LEMMA RnnProcessPInv ==
  ASSUME AInv, PInv, NEW n \in Samples, processUseRnnoise(n)
  PROVE  PInv'
<1> DEFINE done == RnnLoop(Loaded(n))
<1>1. /\ (~m_doAgc => out' = Result(done, n)) /\ ready = "rnn" /\ Fits
      /\ UNCHANGED <<m_frequency, m_channels, m_doAgc, ready>>
  BY RnnReturns
<1>2. SessionKnown' /\ Promised' = Promised
  BY <1>1, KeptSession DEF PInv
<1>3. ASSUME ~m_doAgc PROVE InPlace'
  <2>1. Treated(done, n, Promised)
    BY <1>1, <1>3, RnnPromised DEF PInv
  <2> HIDE DEF done
  <2> QED
    BY <1>1, <1>2, <1>3, <2>1, PutBack
<1>4. m_doAgc => ~~(ready' = "rnn" /\ m_doAgc')
  BY <1>1, Zenon
<1> QED
  BY <1>2, <1>3, <1>4, Zenon DEF PInv, ProcessedInPlace

\* With no frame returned yet there is nothing to show of one.
LEMMA NothingOut == ASSUME out = <<>> PROVE InPlace
BY DEF InPlace

\* initNsModule keeps PInv: it succeeds with channels only at a rate
\* WebRtcNs_Init accepts.
LEMMA InitNsPInv ==
  ASSUME AInv, NEW f \in Rates, NEW c \in Channels, NEW agc \in BOOLEAN,
         initNsModule(f, c, agc)
  PROVE  PInv'
<1>1. out' = <<>> /\ m_frequency' = f /\ m_channels' = c /\ c >= 0 /\ inits < MaxInits
  BY PTL DEF initNsModule, Valid
<1>2. \E stop \in Stops(c, agc, NsFailures) :
        /\ c > 0 /\ f \notin NsRates => stop[1] = 1
        /\ ready' = IF stop[2] = "no" THEN "ns" ELSE "none"
  BY Zenon DEF initNsModule
<1>3. PICK stop \in Stops(c, agc, NsFailures) :
        /\ c > 0 /\ f \notin NsRates => stop[1] = 1
        /\ ready' = IF stop[2] = "no" THEN "ns" ELSE "none"
  BY <1>2
<1>4. stop[2] = "no" => stop[1] - 1 = c
  <2>1. c \in Int /\ Begun(c) = c
    BY <1>1, ChannelsAssumption DEF Begun
  <2>2. inits + 1 \in 1 .. MaxInits
    BY <1>1, MaxInitsAssumption DEF AInv, TypeOK
  <2>3. stop[2] = "no" => stop[1] - 1 = Begun(c)
    BY <2>2, StopParts
  <2> QED
    BY <2>1, <2>3
<1>5. SessionKnown'
  <2>1. c \in Int
    BY ChannelsAssumption
  <2>2. ready' # "rnn" /\ (ready' = "ns" => stop[1] - 1 = c)
    BY <1>3, <1>4
  <2>3. ready' = "ns" /\ c > 0 => f \in NsRates
    BY <1>3, <2>1, <2>2
  <2> QED
    BY <1>1, <2>2, <2>3, Zenon DEF SessionKnown
<1>6. InPlace'
  BY <1>1 DEF InPlace
<1> QED
  BY <1>5, <1>6, Zenon DEF PInv, ProcessedInPlace

\* initRnnoiseModule keeps PInv.
LEMMA InitRnnoisePInv ==
  ASSUME AInv, NEW f \in Rates, NEW c \in Channels, NEW agc \in BOOLEAN,
         initRnnoiseModule(f, c, agc)
  PROVE  PInv'
<1>1. out' = <<>> /\ m_channels' = c
  BY PTL DEF initRnnoiseModule
<1> DEFINE n == inits + 1
<1>2. PICK stop \in Stops(c, agc, {}) :
        LET newRnn == Created("rnn", n, stop[1] - 1)
            newAgc == Created("agc", n, AgcCount(agc, stop))
        IN /\ m_rnnoiseHandles' = m_rnnoiseHandles \o newRnn
           /\ m_agcHandles' = m_agcHandles \o newAgc
           /\ m_captureLevel' = LevelsPushed(m_captureLevel, Len(newAgc))
           /\ live' = live \cup Range(newRnn) \cup Range(newAgc) \cup Dropped(n, stop)
           /\ ready' = IF stop[2] = "no" THEN "rnn" ELSE "none"
           /\ failed' = (failed \/ stop[2] # "no")
  BY PTL DEF initRnnoiseModule
<1>3. ready' # "ns"
  <2>1. ready' = IF stop[2] = "no" THEN "rnn" ELSE "none"
    BY <1>2, PTL
  <2> QED
    BY <2>1
<1>4. SessionKnown'
  BY <1>1, <1>3, Zenon DEF SessionKnown
<1>5. InPlace'
  BY <1>1 DEF InPlace
<1> QED
  BY <1>4, <1>5, Zenon DEF PInv, ProcessedInPlace

\* Every step from a state of the inductive invariant keeps PInv.
LEMMA NextPInv == AInv /\ PInv /\ [Next]_vars => PInv'
<1> SUFFICES ASSUME AInv, PInv, [Next]_vars PROVE PInv'
  OBVIOUS
<1>1. ASSUME NEW f \in Rates, NEW c \in Channels, NEW agc \in BOOLEAN, initNsModule(f, c, agc)
      PROVE  PInv'
  BY <1>1, InitNsPInv
<1>2. ASSUME NEW f \in Rates, NEW c \in Channels, NEW agc \in BOOLEAN, InitNsRefused(f, c, agc)
      PROVE  PInv'
  BY <1>2 DEF InitNsRefused, PInv, SessionKnown, ProcessedInPlace, InPlace
<1>3. ASSUME NEW f \in Rates, NEW c \in Channels, NEW agc \in BOOLEAN, initRnnoiseModule(f, c, agc)
      PROVE  PInv'
  BY <1>3, InitRnnoisePInv
<1>4. ASSUME NEW n \in Samples, processCaptureStream(n) PROVE PInv'
  BY <1>4, NsProcessPInv
<1>5. ASSUME NEW n \in Samples, processUseRnnoise(n) PROVE PInv'
  BY <1>5, RnnProcessPInv
<1>6. ASSUME UNCHANGED <<config, ready, out>> PROVE PInv'
  BY <1>6, Zenon DEF config, PInv, SessionKnown, ProcessedInPlace, InPlace, Promised
<1>7. ASSUME ProcessOverruns \/ Destroy \/ (\E f \in Rates, c \in Channels : InitRnnoiseRefused(f, c)) \/ UNCHANGED vars
      PROVE  UNCHANGED <<config, ready, out>>
  <2>1. CASE ProcessOverruns
    BY <2>1, Zenon DEF ProcessOverruns
  <2>2. CASE Destroy
    BY <2>2, Zenon DEF Destroy
  <2>3. CASE UNCHANGED vars
    BY <2>3, Zenon DEF vars
  <2>4. ASSUME NEW f \in Rates, NEW c \in Channels, InitRnnoiseRefused(f, c) PROVE UNCHANGED vars
    BY <2>4, PTL DEF InitRnnoiseRefused
  <2> QED
    BY <1>7, <2>1, <2>2, <2>3, <2>4, Zenon
<1> QED
  BY <1>1, <1>2, <1>3, <1>4, <1>5, <1>6, <1>7, Zenon DEF Next

\* processCaptureStream, at every rate, channel count and frame length, with or
\* without gain control, and processUseRnnoise without it, return every sample at
\* its place, after gain control and then noise reduction (apm_ns.cpp 81-136 and
\* 243-309): no channel is read from the copy, short or float, that is out of
\* date.
THEOREM ApmProcessesInPlace == Spec => []ProcessedInPlace
<1>1. Init => PInv
  BY DEF Init, PInv, SessionKnown, ProcessedInPlace, InPlace
<1>2. PInv => ProcessedInPlace
  BY DEF PInv
<1> QED
  BY <1>1, <1>2, NextPInv, AInvariance, PTL DEF Spec
=============================================================================

--------------------------- MODULE FileDriversProofs ---------------------------
(***************************************************************************)
(* Proofs about FileDrivers, for every set of input files and any number   *)
(* of frames: which samples the programs write, how many, and that the     *)
(* result is a wav file.                                                   *)
(***************************************************************************)
EXTENDS FileDrivers, FiniteSetTheorems, SequenceTheorems, WellFoundedInduction, TLAPS

(***************************************************************************)
(* Least and greatest elements.                                            *)
(***************************************************************************)
\* A set of natural numbers that is not empty has a least element.
LEMMA MinOfNats ==
  ASSUME NEW S, S \subseteq Nat, S # {}
  PROVE  Min(S) \in S /\ \A y \in S : Min(S) <= y
<1> DEFINE R == {ss \in Nat \X Nat : ss[1] < ss[2]}
<1>1. IsWellFoundedOn(R, Nat)
  BY NatLessThanWellFounded DEF OpToRel
<1>2. \E x \in S : \A y \in S : x <= y
  <2>1. PICK x \in S : \A y \in S : ~(<<y, x>> \in R)
    <3> HIDE DEF R
    <3> QED
      BY <1>1, WFMin
  <2>2. ASSUME NEW y \in S
        PROVE  x <= y
    <3>1. x \in Nat /\ y \in Nat /\ ~(<<y, x>> \in R)
      BY <2>1
    <3> QED
      BY <3>1
  <2> QED
    BY <2>2
<1> QED
  BY <1>2 DEF Min

\* The smaller of two numbers.
LEMMA MinOfTwo ==
  ASSUME NEW a \in Int, NEW b \in Int
  PROVE  Min({a, b}) = IF a <= b THEN a ELSE b
<1>1. \E x \in {a, b} : \A y \in {a, b} : x <= y
  OBVIOUS
<1>2. Min({a, b}) \in {a, b} /\ \A y \in {a, b} : Min({a, b}) <= y
  BY <1>1 DEF Min
<1> QED
  BY <1>2

\* The larger of two numbers.
LEMMA MaxOfTwo ==
  ASSUME NEW a \in Int, NEW b \in Int
  PROVE  Max({a, b}) = IF a <= b THEN b ELSE a
<1>1. \E x \in {a, b} : \A y \in {a, b} : x >= y
  OBVIOUS
<1>2. Max({a, b}) \in {a, b} /\ \A y \in {a, b} : Max({a, b}) >= y
  BY <1>1 DEF Max
<1> QED
  BY <1>2
-----------------------------------------------------------------------------
(***************************************************************************)
(* The header of a file.                                                   *)
(***************************************************************************)
\* A search that succeeds ends at a mark in its window.
LEMMA SearchFinds ==
  ASSUME NEW f \in WavFile, NEW id, NEW from \in Int, NEW size \in Int,
         search_ID(f, id, from, size) # NotFound
  PROVE  LET at == search_ID(f, id, from, size) IN
         /\ at \in Nat /\ from <= at /\ at + ID_LEN <= from + size
         /\ \E m \in f.marks : m.at = at
<1> DEFINE inside == {k \in f.marks : k.id = id /\ from <= k.at /\ k.at + ID_LEN <= from + size}
           hits == {m.at : m \in inside}
<1>1. \A m \in f.marks : m.at \in Nat
  BY DEF WavFile, WavMark
<1>2. hits # {} /\ search_ID(f, id, from, size) = Min(hits)
  BY DEF search_ID
<1>3. hits \subseteq Nat
  BY <1>1
<1>4. Min(hits) \in hits
  BY <1>2, <1>3, MinOfNats
<1> HIDE DEF hits
<1>5. PICK m \in inside : Min(hits) = m.at
  BY <1>4 DEF hits
<1> QED
  BY <1>1, <1>2, <1>5

\* What read_header may return.
WavHeader ==
  [ok : BOOLEAN, riffSize : Nat, format : WavFormat, formatSize : Nat, dataSize : Nat, start : Nat]

\* The chunk at an offset that has one.
LEMMA MarkFound ==
  ASSUME NEW f \in WavFile, NEW at, \E m \in f.marks : m.at = at
  PROVE  MarkAt(f, at) \in f.marks /\ MarkAt(f, at).format \in WavFormat
         /\ MarkAt(f, at).size \in Nat
<1>1. MarkAt(f, at) \in f.marks
  BY DEF MarkAt
<1> QED
  BY <1>1 DEF WavFile, WavMark

\* read_header leaves the file at a place that lies in it.
LEMMA HeaderInFile ==
  ASSUME NEW f \in WavFile
  PROVE  read_header(f) \in WavHeader /\ read_header(f).start <= f.len
<1> DEFINE n == Min({BUFFER_SIZE, f.len})
           riff == search_ID(f, "RIFF", 0, n)
           afterRiff == riff + RiffSize
           fmt == search_ID(f, "fmt ", afterRiff, n - afterRiff)
           data == search_ID(f, "data", AfterFormat(fmt), n - AfterFormat(fmt))
           bad == \/ n = 0
                  \/ riff = NotFound \/ n - riff < RiffSize \/ f.type # "WAVE"
                  \/ fmt = NotFound \/ n - fmt < FormatSize
                  \/ data = NotFound \/ ~DataFits(n - data)
           good == [ok |-> TRUE,
                    riffSize |-> MarkAt(f, riff).size,
                    format |-> MarkAt(f, fmt).format,
                    formatSize |-> MarkAt(f, fmt).size,
                    dataSize |-> MarkAt(f, data).size,
                    start |-> data + DataSize]
<1>1. read_header(f) = IF bad THEN NoHeader ELSE good
  BY Zenon DEF read_header
<1>2. f.len \in Nat
  BY DEF WavFile
<1>3. n \in Nat /\ n <= f.len
  BY <1>2, MinOfTwo DEF BUFFER_SIZE
<1> HIDE DEF n
<1>4. CASE bad
  <2>1. read_header(f) = NoHeader
    BY <1>1, <1>4, Zenon
  <2>2. NoHeader \in WavHeader /\ NoHeader.start = 0
    BY Zenon DEF NoHeader, WavHeader, NoFormat, WavFormat
  <2> QED
    BY <1>2, <2>1, <2>2
<1>5. CASE ~bad
  <2>1. read_header(f) = good
    BY <1>1, <1>5, Zenon
  <2>2. riff # NotFound /\ fmt # NotFound /\ data # NotFound /\ DataFits(n - data)
    BY <1>5, Zenon
  <2> HIDE DEF bad, good
  <2>3. riff \in Nat /\ \E m \in f.marks : m.at = riff
    <3>1. riff # NotFound
      BY <2>2, Zenon
    <3>2. n \in Int /\ 0 \in Int
      BY <1>3
    <3> HIDE DEF fmt, data
    <3> QED
      BY <3>1, <3>2, SearchFinds
  <2> HIDE DEF riff
  <2>4. fmt \in Nat /\ \E m \in f.marks : m.at = fmt
    <3>1. afterRiff \in Int /\ n - afterRiff \in Int
      BY <1>3, <2>3 DEF RiffSize
    <3> HIDE DEF afterRiff
    <3> QED
      BY <2>2, <3>1, SearchFinds
  <2> HIDE DEF fmt
  <2>5. data \in Nat /\ \E m \in f.marks : m.at = data
    <3>1. AfterFormat(fmt) \in Int /\ n - AfterFormat(fmt) \in Int
      BY <1>3, <2>4 DEF AfterFormat, FormatSize
    <3> QED
      BY <2>2, <3>1, SearchFinds
  <2> HIDE DEF data
  <2>6. data + DataSize \in Nat /\ data + DataSize <= f.len
    BY <1>2, <1>3, <2>2, <2>5 DEF DataFits, DataSize
  <2>7. /\ MarkAt(f, fmt).format \in WavFormat /\ MarkAt(f, fmt).size \in Nat
        /\ MarkAt(f, data).size \in Nat /\ MarkAt(f, riff).size \in Nat
    BY <2>3, <2>4, <2>5, MarkFound
  <2>8. good \in WavHeader /\ good.start = data + DataSize
    BY <2>6, <2>7, Zenon DEF WavHeader, good
  <2> QED
    BY <2>1, <2>6, <2>8
<1> QED
  BY <1>4, <1>5

\* The fields of the marks of a file, and that one place has one mark.
LEMMA MarksOfFile ==
  ASSUME NEW f \in WavFile
  PROVE  /\ \A m \in f.marks : /\ m.at \in Nat /\ m.size \in Nat /\ m.format \in WavFormat
                               /\ ChunkLen(m) \in Nat /\ ChunkLen(m) >= 8 + m.size
         /\ \A k, m \in f.marks : k.at = m.at => k = m
         /\ f.len \in Nat
<1>1. f.marks \subseteq WavMark /\ f.len \in Nat
  BY DEF WavFile
<1>2. \A k, m \in f.marks : k.at = m.at => k = m
  BY DEF WavFile
<1>3. ASSUME NEW m \in f.marks
      PROVE  /\ m.at \in Nat /\ m.size \in Nat /\ m.format \in WavFormat
             /\ ChunkLen(m) \in Nat /\ ChunkLen(m) >= 8 + m.size
  <2>1. m.at \in Nat /\ m.size \in Nat /\ m.format \in WavFormat
    BY <1>1 DEF WavMark
  <2> QED
    BY <2>1 DEF ChunkLen
<1> QED
  BY <1>1, <1>2, <1>3

\* The mark read_header copies a chunk header from.
LEMMA MarkIsAt ==
  ASSUME NEW f \in WavFile, NEW m \in f.marks
  PROVE  MarkAt(f, m.at) = m
<1>1. MarkAt(f, m.at) \in f.marks /\ MarkAt(f, m.at).at = m.at
  BY DEF MarkAt
<1> QED
  BY <1>1, MarksOfFile

\* search_ID finds the first mark of the name in its window.
LEMMA SearchFirst ==
  ASSUME NEW f \in WavFile, NEW id, NEW from \in Int, NEW size \in Int,
         \/ search_ID(f, id, from, size) # NotFound
         \/ \E k \in f.marks : k.id = id /\ from <= k.at /\ k.at + ID_LEN <= from + size
  PROVE  \E m \in f.marks :
           /\ m.id = id /\ from <= m.at /\ m.at + ID_LEN <= from + size
           /\ search_ID(f, id, from, size) = m.at
           /\ \A k \in f.marks : k.id = id /\ from <= k.at /\ k.at + ID_LEN <= from + size
                                 => m.at <= k.at
<1> DEFINE inside == {k \in f.marks : k.id = id /\ from <= k.at /\ k.at + ID_LEN <= from + size}
           hits == {m.at : m \in inside}
<1>1. hits # {} /\ search_ID(f, id, from, size) = Min(hits)
  BY DEF search_ID
<1>2. hits \subseteq Nat
  BY MarksOfFile
<1>3. Min(hits) \in hits /\ \A y \in hits : Min(hits) <= y
  BY <1>1, <1>2, MinOfNats
<1>4. \A k \in inside : Min(hits) <= k.at
  BY <1>3
<1> HIDE DEF hits
<1>5. PICK m \in inside : Min(hits) = m.at
  BY <1>3 DEF hits
<1> QED
  BY <1>1, <1>4, <1>5
-----------------------------------------------------------------------------
(***************************************************************************)
(* The chain of chunks.                                                    *)
(***************************************************************************)
\* What the chain of chunks never leads out of contains all chunks.
LEMMA ChunkInduction ==
  ASSUME NEW f, NEW S \in SUBSET f.marks, Linked(f, S)
  PROVE  Chunks(f) \subseteq S
BY DEF Chunks

\* It does not lead out of the chunks.
LEMMA ChunksLinked ==
  ASSUME NEW f
  PROVE  Chunks(f) \subseteq f.marks /\ Linked(f, Chunks(f))
<1>1. ASSUME NEW m \in f.marks, Begins(f, Chunks(f), m),
             NEW S \in SUBSET f.marks, Linked(f, S)
      PROVE  m \in S
  <2>1. Chunks(f) \subseteq S
    BY <1>1, ChunkInduction
  <2>2. Begins(f, S, m)
    BY <1>1, <2>1 DEF Begins
  <2> QED
    BY <1>1, <2>2 DEF Linked
<1>2. \A m \in f.marks : Begins(f, Chunks(f), m) => m \in Chunks(f)
  BY <1>1 DEF Chunks
<1> QED
  BY <1>2 DEF Linked, Chunks

\* Every chunk lies behind the RIFF header.
LEMMA ChunkBehindRiff ==
  ASSUME NEW f \in WavFile, NEW m \in Chunks(f)
  PROVE  \E riff \in f.marks : RiffHeader(f, riff) /\ riff.at + RiffSize <= m.at
<1> DEFINE BehindRiff(k) == \E riff \in f.marks : RiffHeader(f, riff) /\ riff.at + RiffSize <= k.at
           S == {k \in f.marks : BehindRiff(k)}
<1>1. ASSUME NEW x \in f.marks, Begins(f, S, x)
      PROVE  BehindRiff(x)
  <2>1. CASE \E riff \in f.marks : RiffHeader(f, riff) /\ x.at = riff.at + RiffSize
    <3>1. PICK riff \in f.marks : RiffHeader(f, riff) /\ x.at = riff.at + RiffSize
      BY <2>1
    <3> QED
      BY <3>1, MarksOfFile DEF RiffSize
  <2>2. CASE \E k \in S : x.at = k.at + ChunkLen(k)
    <3>1. PICK k \in S : x.at = k.at + ChunkLen(k)
      BY <2>2
    <3>2. PICK riff \in f.marks : RiffHeader(f, riff) /\ riff.at + RiffSize <= k.at
      BY <3>1
    <3>3. riff.at + RiffSize <= x.at
      BY <3>1, <3>2, MarksOfFile DEF RiffSize
    <3> QED
      BY <3>2, <3>3
  <2> QED
    BY <1>1, <2>1, <2>2 DEF Begins
<1>2. Linked(f, S)
  BY <1>1 DEF Linked
<1>3. m \in S
  <2> HIDE DEF S
  <2>1. S \in SUBSET f.marks
    BY DEF S
  <2> QED
    BY <1>2, <2>1, ChunkInduction
<1> QED
  BY <1>3

\* Of two places that are both the RIFF header, neither lies behind the other.
LEMMA OneRiffHeader ==
  ASSUME NEW f \in WavFile, NEW k \in f.marks, NEW m \in f.marks,
         RiffHeader(f, k), RiffHeader(f, m)
  PROVE  k = m
<1>1. k.at <= m.at /\ m.at <= k.at
  BY DEF RiffHeader
<1> QED
  BY <1>1, MarksOfFile

\* From chunk to chunk nothing is skipped: if all chunks in front of k end before
\* it, every chunk begins at or before k, or behind its end.
LEMMA NoneInside ==
  ASSUME NEW f \in WavFile, NEW k \in Chunks(f),
         \A a \in Chunks(f) : a.at < k.at => a.at + ChunkLen(a) <= k.at,
         NEW m \in Chunks(f)
  PROVE  m.at <= k.at \/ k.at + ChunkLen(k) <= m.at
<1> DEFINE T == {a \in Chunks(f) : a.at <= k.at \/ k.at + ChunkLen(k) <= a.at}
<1>1. T \subseteq Chunks(f) /\ Chunks(f) \subseteq f.marks
  BY ChunksLinked
<1>2. ASSUME NEW x \in f.marks, Begins(f, T, x)
      PROVE  x \in T
  <2>1. Begins(f, Chunks(f), x)
    BY <1>1, <1>2 DEF Begins
  <2>2. x \in Chunks(f)
    BY <2>1, ChunksLinked DEF Linked
  <2>3. CASE \E riff \in f.marks : RiffHeader(f, riff) /\ x.at = riff.at + RiffSize
    <3>1. PICK riff \in f.marks : RiffHeader(f, riff) /\ x.at = riff.at + RiffSize
      BY <2>3
    <3>2. PICK first \in f.marks : RiffHeader(f, first) /\ first.at + RiffSize <= k.at
      BY ChunkBehindRiff
    <3>3. first = riff
      BY <3>1, <3>2, OneRiffHeader
    <3> QED
      BY <2>2, <3>1, <3>2, <3>3
  <2>4. CASE \E j \in T : x.at = j.at + ChunkLen(j)
    <3>1. PICK j \in T : x.at = j.at + ChunkLen(j)
      BY <2>4
    <3>2. /\ j.at \in Nat /\ ChunkLen(j) \in Nat /\ k.at \in Nat /\ ChunkLen(k) \in Nat
          /\ j.at = k.at => j = k
      BY <1>1, MarksOfFile
    <3>3. CASE j.at < k.at
      BY <2>2, <3>1, <3>2, <3>3
    <3>4. CASE j.at = k.at
      BY <2>2, <3>1, <3>2, <3>4
    <3>5. CASE k.at + ChunkLen(k) <= j.at
      BY <2>2, <3>1, <3>2, <3>5
    <3> QED
      BY <3>1, <3>2, <3>3, <3>4, <3>5
  <2> QED
    BY <1>2, <2>3, <2>4 DEF Begins
<1>3. Linked(f, T)
  BY <1>2 DEF Linked
<1> HIDE DEF T
<1>4. m \in T
  BY <1>1, <1>3, ChunkInduction
<1> QED
  BY <1>4 DEF T

\* Chunks do not overlap: each ends before the next begins.
LEMMA ChunksApart ==
  ASSUME NEW f \in WavFile, NEW a \in Chunks(f), NEW m \in Chunks(f), a.at < m.at
  PROVE  a.at + ChunkLen(a) <= m.at
<1> DEFINE Clear(k) == \A c \in Chunks(f) : c.at < k.at => c.at + ChunkLen(c) <= k.at
           S == {k \in Chunks(f) : Clear(k)}
<1>1. S \subseteq Chunks(f) /\ Chunks(f) \subseteq f.marks
  BY ChunksLinked
<1>2. ASSUME NEW x \in f.marks, Begins(f, S, x)
      PROVE  x \in S
  <2>1. Begins(f, Chunks(f), x)
    BY <1>1, <1>2 DEF Begins
  <2>2. x \in Chunks(f)
    BY <2>1, ChunksLinked DEF Linked
  <2>3. ASSUME NEW c \in Chunks(f), c.at < x.at
        PROVE  c.at + ChunkLen(c) <= x.at
    <3>1. CASE \E riff \in f.marks : RiffHeader(f, riff) /\ x.at = riff.at + RiffSize
      <4>1. PICK riff \in f.marks : RiffHeader(f, riff) /\ x.at = riff.at + RiffSize
        BY <3>1
      <4>2. PICK first \in f.marks : RiffHeader(f, first) /\ first.at + RiffSize <= c.at
        BY ChunkBehindRiff
      <4>3. first = riff
        BY <4>1, <4>2, OneRiffHeader
      <4>4. x.at \in Nat /\ c.at \in Nat
        BY <1>1, MarksOfFile
      <4> QED
        BY <2>3, <4>1, <4>2, <4>3, <4>4
    <3>2. CASE \E k \in S : x.at = k.at + ChunkLen(k)
      <4>1. PICK k \in S : x.at = k.at + ChunkLen(k)
        BY <3>2
      <4>2. k \in Chunks(f) /\ Clear(k)
        OBVIOUS
      <4>3. c.at <= k.at \/ k.at + ChunkLen(k) <= c.at
        BY <4>2, NoneInside
      <4>4. /\ c.at \in Nat /\ ChunkLen(c) \in Nat /\ k.at \in Nat /\ ChunkLen(k) \in Nat
            /\ c.at = k.at => c = k
        BY <1>1, <4>2, MarksOfFile
      <4>5. CASE c.at < k.at
        BY <4>1, <4>2, <4>4, <4>5
      <4>6. CASE c.at = k.at
        BY <4>1, <4>4, <4>6
      <4> QED
        BY <2>3, <4>1, <4>3, <4>4, <4>5, <4>6
    <3> QED
      BY <1>2, <3>1, <3>2 DEF Begins
  <2> QED
    BY <2>2, <2>3
<1>3. Linked(f, S)
  BY <1>2 DEF Linked
<1>4. m \in S
  <2> HIDE DEF S
  <2> QED
    BY <1>1, <1>3, ChunkInduction
<1> QED
  BY <1>4
-----------------------------------------------------------------------------
(***************************************************************************)
(* What read_header finds.                                                 *)
(***************************************************************************)
\* The IDs, by names of which the provers need not know the letters.
RiffId == "RIFF"
FmtId == "fmt "
DataId == "data"

\* They differ.
LEMMA IdsDiffer == RiffId # FmtId /\ RiffId # DataId /\ FmtId # DataId
BY DEF RiffId, FmtId, DataId

\* The RIFF header is the first mark of its name.
LEMMA RiffIsFirst ==
  ASSUME NEW f, NEW m
  PROVE  RiffHeader(f, m) <=> /\ m.id = RiffId
                              /\ \A k \in f.marks : k.id = RiffId => m.at <= k.at
BY Zenon DEF RiffHeader, RiffId

\* A mark other than "RIFF" is a chunk or only looks like one.
LEMMA ChunkOrLookalike ==
  ASSUME NEW f, NEW m \in f.marks, m.id # RiffId
  PROVE  m \in Chunks(f) \/ m \in Lookalikes(f)
BY Zenon DEF Lookalikes, RiffId

\* No stray "fmt " stands in front of the format chunk.
NoStrayFormat(f, fmt) == \A m \in Lookalikes(f) : m.id = FmtId => m.at > fmt.at

\* The samples start behind the data chunk, or behind a stray "data" in front of it.
StartsAt(f, data, start) ==
  \/ start = data.at + DataSize
  \/ \E m \in Lookalikes(f) : m.id = DataId /\ m.at < data.at /\ start = m.at + DataSize

\* What read_header needs to accept a file, and what it takes from it: the places
\* at which the three searches end.
HeaderPlaces(f, n, riff, fmt, data) ==
  /\ riff \in Nat /\ fmt \in Nat /\ data \in Nat /\ f.type = "WAVE"
  /\ search_ID(f, RiffId, 0, n) = riff /\ n - riff >= RiffSize
  /\ search_ID(f, FmtId, riff + RiffSize, n - (riff + RiffSize)) = fmt
  /\ n - fmt >= FormatSize
  /\ search_ID(f, DataId, AfterFormat(fmt), n - AfterFormat(fmt)) = data
  /\ n - data >= DataSize

\* read_header accepts a file with such places.
LEMMA HeaderOfPlaces ==
  ASSUME NEW f, NEW n \in Nat, n = Min({BUFFER_SIZE, f.len}),
         NEW riff, NEW fmt, NEW data, HeaderPlaces(f, n, riff, fmt, data)
  PROVE  /\ read_header(f).ok
         /\ read_header(f).format = MarkAt(f, fmt).format
         /\ read_header(f).start = data + DataSize
         /\ read_header(f).riffSize = MarkAt(f, riff).size
         /\ read_header(f).dataSize = MarkAt(f, data).size
<1> DEFINE good == [ok |-> TRUE,
                    riffSize |-> MarkAt(f, riff).size,
                    format |-> MarkAt(f, fmt).format,
                    formatSize |-> MarkAt(f, fmt).size,
                    dataSize |-> MarkAt(f, data).size,
                    start |-> data + DataSize]
<1>1. /\ n # 0 /\ riff # NotFound /\ ~(n - riff < RiffSize)
      /\ fmt # NotFound /\ ~(n - fmt < FormatSize)
      /\ data # NotFound /\ DataFits(n - data)
  <2>1. /\ riff \in Nat /\ fmt \in Nat /\ data \in Nat
        /\ n - riff >= RiffSize /\ n - fmt >= FormatSize /\ n - data >= DataSize
    BY Zenon DEF HeaderPlaces
  <2> QED
    BY <2>1 DEF NotFound, DataFits, RiffSize, FormatSize, DataSize
<1>2. /\ search_ID(f, RiffId, 0, n) = riff /\ f.type = "WAVE"
      /\ search_ID(f, FmtId, riff + RiffSize, n - (riff + RiffSize)) = fmt
      /\ search_ID(f, DataId, AfterFormat(fmt), n - AfterFormat(fmt)) = data
  BY Zenon DEF HeaderPlaces
<1>3. read_header(f) = good
  BY <1>1, <1>2, Zenon DEF read_header, RiffId, FmtId, DataId
<1>4. /\ good.ok /\ good.format = MarkAt(f, fmt).format /\ good.start = data + DataSize
      /\ good.riffSize = MarkAt(f, riff).size /\ good.dataSize = MarkAt(f, data).size
  BY Zenon
<1> QED
  BY <1>3, <1>4, Zenon

\* A file it accepts has them.
LEMMA PlacesOfHeader ==
  ASSUME NEW f \in WavFile, NEW n \in Nat, n = Min({BUFFER_SIZE, f.len}), read_header(f).ok
  PROVE  \E riff, fmt, data : HeaderPlaces(f, n, riff, fmt, data)
<1> DEFINE riff == search_ID(f, RiffId, 0, n)
           fmt == search_ID(f, FmtId, riff + RiffSize, n - (riff + RiffSize))
           data == search_ID(f, DataId, AfterFormat(fmt), n - AfterFormat(fmt))
<1>1. ~NoHeader.ok
  BY Zenon DEF NoHeader
<1>2. /\ riff # NotFound /\ ~(n - riff < RiffSize) /\ f.type = "WAVE"
      /\ fmt # NotFound /\ ~(n - fmt < FormatSize)
      /\ data # NotFound /\ DataFits(n - data)
  BY <1>1, Zenon DEF read_header, RiffId, FmtId, DataId
<1>3. riff \in Nat
  <2> HIDE DEF fmt, data
  <2>1. n \in Int /\ 0 \in Int
    OBVIOUS
  <2> QED
    BY <1>2, <2>1, SearchFinds
<1>4. search_ID(f, RiffId, 0, n) = riff
  OBVIOUS
<1> HIDE DEF riff
<1>5. fmt \in Nat
  <2> DEFINE from == riff + RiffSize
  <2>1. from \in Int /\ n - from \in Int
    BY <1>3 DEF RiffSize
  <2>2. search_ID(f, FmtId, from, n - from) # NotFound
    BY <1>2, Zenon
  <2> HIDE DEF from
  <2>3. search_ID(f, FmtId, from, n - from) \in Nat
    BY <2>1, <2>2, SearchFinds
  <2> QED
    BY <2>3, Zenon DEF from
<1>6. search_ID(f, FmtId, riff + RiffSize, n - (riff + RiffSize)) = fmt
  OBVIOUS
<1> HIDE DEF fmt
<1>7. data \in Nat
  <2> DEFINE from == AfterFormat(fmt)
  <2>1. from \in Int /\ n - from \in Int
    BY <1>5 DEF AfterFormat, FormatSize
  <2>2. search_ID(f, DataId, from, n - from) # NotFound
    BY <1>2, Zenon
  <2> HIDE DEF from
  <2>3. search_ID(f, DataId, from, n - from) \in Nat
    BY <2>1, <2>2, SearchFinds
  <2> QED
    BY <2>3, Zenon DEF from
<1>8. search_ID(f, DataId, AfterFormat(fmt), n - AfterFormat(fmt)) = data
  OBVIOUS
<1> HIDE DEF data
<1>9. n - riff >= RiffSize /\ n - fmt >= FormatSize /\ n - data >= DataSize
  BY <1>2, <1>3, <1>5, <1>7 DEF RiffSize, FormatSize, DataSize, DataFits
<1>10. HeaderPlaces(f, n, riff, fmt, data)
  BY <1>2, <1>3, <1>4, <1>5, <1>6, <1>7, <1>8, <1>9, Zenon DEF HeaderPlaces
<1> QED
  BY <1>10, Zenon

\* The part of a file that read_header looks at.
LEMMA Window ==
  ASSUME NEW f \in WavFile
  PROVE  Min({BUFFER_SIZE, f.len}) \in Nat
BY MarksOfFile, MinOfTwo DEF BUFFER_SIZE

\* Every wav file in the window with a whole format chunk is accepted, and only a
\* stray ID in front of the data chunk can lead elsewhere.
LEMMA WaveAccepted ==
  ASSUME NEW f \in WavFile, NEW fmt \in f.marks, NEW data \in f.marks,
         IsWave(f, fmt, data), WholeFormat(fmt),
         NoStrayFormat(f, fmt)
  PROVE  /\ read_header(f).ok
         /\ read_header(f).format = fmt.format
         /\ StartsAt(f, data, read_header(f).start)
<1> DEFINE n == Min({BUFFER_SIZE, f.len})
<1>1. n \in Nat
  BY Window
<1>2. /\ f.type = "WAVE" /\ fmt \in Chunks(f) /\ data \in Chunks(f)
      /\ fmt.id = FmtId /\ data.id = DataId
      /\ fmt.at <= data.at /\ data.at + DataSize <= n
      /\ \A k \in Chunks(f) : k.id = FmtId /\ 0 <= k.at => fmt.at <= k.at
      /\ \A k \in Chunks(f) : k.id = DataId /\ fmt.at <= k.at => data.at <= k.at
  BY Zenon DEF IsWave, FirstChunk, FmtId, DataId
<1> HIDE DEF n
<1>3. /\ fmt.at \in Nat /\ data.at \in Nat /\ fmt.size \in Nat
      /\ ChunkLen(fmt) \in Nat /\ ChunkLen(fmt) >= 8 + fmt.size
  BY MarksOfFile
<1>4. fmt.at + FormatSize <= data.at
  <2>1. fmt.at # data.at
    <3>1. fmt # data
      BY <1>2, IdsDiffer, Zenon
    <3> QED
      BY <3>1, MarksOfFile
  <2>2. fmt.at < data.at
    BY <1>2, <1>3, <2>1
  <2>3. fmt.at + ChunkLen(fmt) <= data.at
    BY <1>2, <2>2, ChunksApart
  <2> QED
    BY <1>3, <2>3 DEF WholeFormat, FormatSize
<1>5. fmt.at + FormatSize + DataSize <= n
  BY <1>1, <1>2, <1>3, <1>4 DEF FormatSize, DataSize
<1>6. PICK riff \in f.marks : RiffHeader(f, riff) /\ riff.at + RiffSize <= fmt.at
  BY <1>2, ChunkBehindRiff
<1>7. riff.at \in Nat /\ riff.id = RiffId
  BY <1>6, MarksOfFile, RiffIsFirst
<1>8. search_ID(f, RiffId, 0, n) = riff.at
  <2>1. 0 <= riff.at /\ riff.at + ID_LEN <= 0 + n
    BY <1>1, <1>3, <1>5, <1>6, <1>7 DEF RiffSize, FormatSize, DataSize, ID_LEN
  <2>2. n \in Int /\ 0 \in Int
    BY <1>1
  <2>3. \E k \in f.marks : k.id = RiffId /\ 0 <= k.at /\ k.at + ID_LEN <= 0 + n
    BY <1>7, <2>1
  <2>4. PICK m \in f.marks :
          /\ m.id = RiffId /\ search_ID(f, RiffId, 0, n) = m.at
          /\ \A k \in f.marks : k.id = RiffId /\ 0 <= k.at /\ k.at + ID_LEN <= 0 + n
                                => m.at <= k.at
    BY <2>2, <2>3, SearchFirst
  <2>5. m.at <= riff.at /\ riff.at <= m.at
    BY <1>6, <1>7, <2>1, <2>4, RiffIsFirst
  <2>6. m.at \in Nat
    BY MarksOfFile
  <2> QED
    BY <1>7, <2>4, <2>5, <2>6
<1> DEFINE from == riff.at + RiffSize
<1>9. from \in Nat /\ from <= fmt.at /\ from \in Int /\ n - from \in Int
      /\ fmt.at + ID_LEN <= from + (n - from)
  BY <1>1, <1>3, <1>5, <1>6, <1>7 DEF RiffSize, FormatSize, DataSize, ID_LEN
<1> HIDE DEF from
<1>10. search_ID(f, FmtId, from, n - from) = fmt.at
  <2>1. \E k \in f.marks : k.id = FmtId /\ from <= k.at /\ k.at + ID_LEN <= from + (n - from)
    BY <1>2, <1>9
  <2>2. PICK m \in f.marks :
          /\ m.id = FmtId /\ search_ID(f, FmtId, from, n - from) = m.at
          /\ \A k \in f.marks : k.id = FmtId /\ from <= k.at
                                  /\ k.at + ID_LEN <= from + (n - from) => m.at <= k.at
    BY <1>9, <2>1, SearchFirst
  <2>3. m.at <= fmt.at /\ m.at \in Nat
    BY <1>2, <1>9, <2>2, MarksOfFile
  <2>4. fmt.at <= m.at
    <3>1. CASE m \in Chunks(f)
      BY <1>2, <2>2, <2>3, <3>1
    <3>2. CASE m \notin Chunks(f)
      <4>1. m \in Lookalikes(f)
        BY <2>2, <3>2, IdsDiffer, ChunkOrLookalike, Zenon
      <4>2. m.at > fmt.at
        BY <2>2, <4>1, Zenon DEF NoStrayFormat
      <4> QED
        BY <1>3, <2>3, <4>2
    <3> QED
      BY <3>1, <3>2
  <2> QED
    BY <1>3, <2>2, <2>3, <2>4
<1> DEFINE behind == AfterFormat(fmt.at)
<1>11. behind \in Nat /\ behind <= data.at /\ behind \in Int /\ n - behind \in Int
       /\ data.at + ID_LEN <= behind + (n - behind) /\ fmt.at <= behind
  BY <1>1, <1>2, <1>3, <1>4 DEF AfterFormat, FormatSize, DataSize, ID_LEN
<1> HIDE DEF behind
<1>12. PICK m \in f.marks :
          /\ m.id = DataId /\ search_ID(f, DataId, behind, n - behind) = m.at
          /\ behind <= m.at /\ m.at <= data.at
  <2>1. data.id = DataId /\ behind <= data.at /\ data.at + ID_LEN <= behind + (n - behind)
    BY <1>2, <1>11
  <2>2. \E k \in f.marks : k.id = DataId /\ behind <= k.at
                            /\ k.at + ID_LEN <= behind + (n - behind)
    BY <2>1
  <2>3. PICK m \in f.marks :
          /\ m.id = DataId /\ behind <= m.at /\ search_ID(f, DataId, behind, n - behind) = m.at
          /\ \A k \in f.marks : k.id = DataId /\ behind <= k.at
                                  /\ k.at + ID_LEN <= behind + (n - behind) => m.at <= k.at
    BY <1>11, <2>2, SearchFirst
  <2>4. m.at <= data.at
    BY <2>1, <2>3
  <2> QED
    BY <2>3, <2>4
<1>13. m.at \in Nat
  BY MarksOfFile
<1>14. HeaderPlaces(f, n, riff.at, fmt.at, m.at)
  <2>1. n - riff.at >= RiffSize /\ n - fmt.at >= FormatSize /\ n - m.at >= DataSize
    BY <1>1, <1>2, <1>3, <1>5, <1>6, <1>7, <1>12, <1>13 DEF RiffSize, FormatSize, DataSize
  <2> QED
    BY <1>2, <1>3, <1>7, <1>8, <1>10, <1>12, <1>13, <2>1, Zenon DEF HeaderPlaces, from, behind
<1>15. /\ read_header(f).ok
       /\ read_header(f).format = MarkAt(f, fmt.at).format
       /\ read_header(f).start = m.at + DataSize
  <2>1. n = Min({BUFFER_SIZE, f.len})
    BY DEF n
  <2> DEFINE a == riff.at
             b == fmt.at
             c == m.at
  <2>2. HeaderPlaces(f, n, a, b, c) /\ n \in Nat
    BY <1>1, <1>14
  <2> HIDE DEF n, a, b, c
  <2>3. /\ read_header(f).ok
        /\ read_header(f).format = MarkAt(f, b).format
        /\ read_header(f).start = c + DataSize
    BY <2>1, <2>2, HeaderOfPlaces
  <2> QED
    BY <2>3 DEF b, c
<1>16. MarkAt(f, fmt.at) = fmt
  BY MarkIsAt
<1>17. CASE m.at = data.at
  BY <1>15, <1>16, <1>17, Zenon DEF StartsAt
<1>18. CASE m.at < data.at
  <2>1. m \notin Chunks(f)
    BY <1>2, <1>3, <1>11, <1>12, <1>13, <1>18
  <2>2. m \in Lookalikes(f)
    BY <1>12, <2>1, IdsDiffer, ChunkOrLookalike, Zenon
  <2> QED
    BY <1>12, <1>15, <1>16, <1>18, <2>2, Zenon DEF StartsAt
<1> QED
  BY <1>3, <1>12, <1>13, <1>17, <1>18

\* With no stray ID the three places are those of chunks.
LEMMA AcceptedIsWave ==
  ASSUME NEW f \in WavFile, Lookalikes(f) = {}, read_header(f).ok
  PROVE  \E fmt, data \in f.marks :
           /\ FirstChunk(f, FmtId, 0, fmt)
           /\ data \in Chunks(f) /\ data.id = DataId
           /\ read_header(f).format = fmt.format
           /\ read_header(f).start = data.at + DataSize
           /\ WholeFormat(fmt) => IsWave(f, fmt, data)
<1> DEFINE n == Min({BUFFER_SIZE, f.len})
<1>1. n \in Nat
  BY Window
<1>2. PICK riff, at, start : HeaderPlaces(f, n, riff, at, start)
  BY <1>1, PlacesOfHeader, Zenon
<1>3. /\ read_header(f).format = MarkAt(f, at).format
      /\ read_header(f).start = start + DataSize
  BY <1>1, <1>2, HeaderOfPlaces, Zenon
<1> HIDE DEF n
<1> DEFINE from == riff + RiffSize
           behind == AfterFormat(at)
<1>4. /\ riff \in Nat /\ at \in Nat /\ start \in Nat /\ f.type = "WAVE"
      /\ search_ID(f, RiffId, 0, n) = riff /\ n - riff >= RiffSize
      /\ search_ID(f, FmtId, from, n - from) = at /\ n - at >= FormatSize
      /\ search_ID(f, DataId, behind, n - behind) = start /\ n - start >= DataSize
  BY <1>2, Zenon DEF HeaderPlaces
<1>5. /\ from \in Int /\ n - from \in Int /\ behind \in Int /\ n - behind \in Int
      /\ from + (n - from) = n /\ behind + (n - behind) = n /\ behind = at + 24
  BY <1>1, <1>4 DEF RiffSize, AfterFormat, FormatSize
<1>6. riff # NotFound /\ at # NotFound /\ start # NotFound
  BY <1>4 DEF NotFound
<1> HIDE DEF from, behind
<1>7. PICK r \in f.marks :
        /\ r.id = RiffId /\ r.at = riff
        /\ \A k \in f.marks : k.id = RiffId /\ 0 <= k.at /\ k.at + ID_LEN <= 0 + n
                              => r.at <= k.at
  <2>1. n \in Int /\ 0 \in Int /\ search_ID(f, RiffId, 0, n) # NotFound
    BY <1>1, <1>4, <1>6
  <2> QED
    BY <1>4, <2>1, SearchFirst
<1>8. RiffHeader(f, r)
  <2>1. ASSUME NEW k \in f.marks, k.id = RiffId
        PROVE  r.at <= k.at
    <3>1. k.at \in Nat
      BY MarksOfFile
    <3> QED
      BY <1>1, <1>4, <1>7, <2>1, <3>1 DEF ID_LEN, RiffSize
  <2> QED
    BY <1>7, <2>1, RiffIsFirst
<1>9. PICK fmt \in f.marks :
        /\ fmt.id = FmtId /\ fmt.at = at
        /\ \A k \in f.marks : k.id = FmtId /\ from <= k.at /\ k.at + ID_LEN <= from + (n - from)
                              => fmt.at <= k.at
  <2>1. search_ID(f, FmtId, from, n - from) # NotFound
    BY <1>4, <1>6
  <2> QED
    BY <1>4, <1>5, <2>1, SearchFirst
<1>10. PICK data \in f.marks :
        /\ data.id = DataId /\ data.at = start /\ behind <= data.at
        /\ \A k \in f.marks : k.id = DataId /\ behind <= k.at
                              /\ k.at + ID_LEN <= behind + (n - behind) => data.at <= k.at
  <2>1. search_ID(f, DataId, behind, n - behind) # NotFound
    BY <1>4, <1>6
  <2> QED
    BY <1>4, <1>5, <2>1, SearchFirst
<1>11. fmt \in Chunks(f) /\ data \in Chunks(f)
  BY <1>9, <1>10, IdsDiffer, ChunkOrLookalike
<1>12. FirstChunk(f, FmtId, 0, fmt)
  <2>1. ASSUME NEW k \in Chunks(f), k.id = FmtId
        PROVE  fmt.at <= k.at
    <3>1. k \in f.marks /\ k.at \in Nat /\ fmt.at \in Nat
      BY ChunksLinked, MarksOfFile
    <3>2. PICK first \in f.marks : RiffHeader(f, first) /\ first.at + RiffSize <= k.at
      BY ChunkBehindRiff
    <3>3. first = r
      BY <1>8, <3>2, OneRiffHeader
    <3>4. from <= k.at
      BY <1>7, <3>2, <3>3 DEF from
    <3>5. k.at + ID_LEN <= from + (n - from) => fmt.at <= k.at
      BY <1>9, <2>1, <3>1, <3>4
    <3> QED
      BY <1>1, <1>4, <1>5, <1>9, <3>1, <3>5 DEF ID_LEN, FormatSize
  <2>2. 0 <= fmt.at
    BY <1>4, <1>9
  <2> QED
    BY <1>9, <1>11, <2>1, <2>2 DEF FirstChunk
<1>13. ASSUME WholeFormat(fmt)
       PROVE  FirstChunk(f, DataId, fmt.at, data)
  <2>1. ASSUME NEW k \in Chunks(f), k.id = DataId, fmt.at <= k.at
        PROVE  data.at <= k.at
    <3>1. k \in f.marks /\ k.at \in Nat /\ fmt.at \in Nat /\ fmt.size \in Nat
          /\ ChunkLen(fmt) \in Nat /\ ChunkLen(fmt) >= 8 + fmt.size
      BY ChunksLinked, MarksOfFile
    <3>2. fmt.at # k.at
      <4>1. fmt # k
        BY <1>9, <2>1, IdsDiffer, Zenon
      <4> QED
        BY <3>1, <4>1, MarksOfFile
    <3>3. fmt.at + ChunkLen(fmt) <= k.at
      BY <1>11, <2>1, <3>1, <3>2, ChunksApart
    <3>4. behind <= k.at
      BY <1>5, <1>9, <1>13, <3>1, <3>3 DEF WholeFormat, FormatSize
    <3>5. k.at + ID_LEN <= behind + (n - behind) => data.at <= k.at
      BY <1>10, <2>1, <3>1, <3>4
    <3> QED
      BY <1>1, <1>4, <1>5, <1>10, <3>1, <3>5 DEF ID_LEN, DataSize
  <2>2. fmt.at <= data.at
    BY <1>4, <1>5, <1>9, <1>10
  <2> QED
    BY <1>10, <1>11, <2>1, <2>2 DEF FirstChunk
<1>14. data.at + DataSize <= n
  BY <1>1, <1>4, <1>10 DEF DataSize
<1>15. WholeFormat(fmt) => IsWave(f, fmt, data)
  BY <1>4, <1>12, <1>13, <1>14, Zenon DEF IsWave, FmtId, DataId, n
<1>16. read_header(f).format = fmt.format /\ read_header(f).start = data.at + DataSize
  <2>1. MarkAt(f, at) = fmt
    BY <1>9, MarkIsAt
  <2> QED
    BY <1>3, <1>10, <2>1, Zenon
<1> QED
  BY <1>10, <1>11, <1>12, <1>15, <1>16, Zenon
-----------------------------------------------------------------------------
(***************************************************************************)
(* The inductive invariant.                                                *)
(***************************************************************************)
Early == {"open", "header", "format", "start"}

Types ==
  /\ driver \in Drivers
  /\ outRate \in Nat
  /\ \A s \in Streams : file[s] \in WavFile
  /\ pc \in Early \cup {"loop", "done"}
  /\ header \in [Streams -> WavHeader]
  /\ length \in Nat
  /\ out \in Seq(Int)
  /\ frm_cnt \in Nat

\* Every header leaves its file at a place that lies in it.
StartInFile == \A s \in Streams : header[s].start <= file[s].len

\* Nothing has been read but the headers.
NothingRead ==
  /\ pc \in Early =>
       /\ out = <<>> /\ frm_cnt = 0
       /\ \A s \in Streams : pos[s] = header[s].start /\ ~eof[s]
  /\ pc \in {"open", "header"} => \A s \in Streams : header[s] = NoHeader
  /\ pc = "format" => header["in"] = read_header(file["in"])

\* A header was written only once the one of the input had been read.
WrittenHeader == written \in {NoHeader, Retagged(read_header(file["in"]))}

\* Where a file is after frm_cnt frames: behind them, or at an end that lies in
\* the last of them.
Position(s) ==
  IF eof[s] THEN frm_cnt > 0 /\ (frm_cnt - 1) * length <= Available(s)
                 /\ Available(s) < frm_cnt * length
            ELSE frm_cnt * length <= Available(s)
                 /\ pos[s] = header[s].start + (frm_cnt * length) * SampleWidth

Looping == pc = "loop" \/ ret = "ok"

Positions == Looping => \A s \in Sources : Position(s)

Progress ==
  Looping => Len(out) = IF driver = TestApmNs /\ eof["in"] THEN Available("in")
                        ELSE frm_cnt * length

\* The buffer of a file holds the frame before, or is still cleared.
Holds(s) ==
  ~eof[s] => \A k \in 1 .. length :
               buf[s][k] = IF frm_cnt = 0 THEN Silence ELSE (frm_cnt - 1) * length + k

Buffer == pc = "loop" => \A s \in Sources : Holds(s)

Ended == ret = "ok" => pc = "done" /\ ~Reading

DInv ==
  /\ Types
  /\ StartInFile
  /\ NothingRead
  /\ WrittenHeader
  /\ Positions
  /\ Progress
  /\ Buffer
  /\ Ended
  /\ SamplesInPlace
  /\ EndsAligned
-----------------------------------------------------------------------------
(***************************************************************************)
(* One read.                                                               *)
(***************************************************************************)
Widths == {2, 4}

\* After p samples, dividing by the width of one counts from the first.
LEMMA SamplesLeft ==
  ASSUME NEW rest \in Nat, NEW p \in Nat, NEW w \in Widths, p <= rest \div w
  PROVE  /\ rest \div w \in Nat
         /\ p * w \in Nat /\ p * w <= rest
         /\ (rest - p * w) \div w = rest \div w - p
         /\ (rest - p * w) % w = rest % w
         /\ (p * w) \div w = p
<1>1. CASE w = 2
  BY <1>1, Z3
<1>2. CASE w = 4
  BY <1>2, Z3
<1> QED
  BY <1>1, <1>2 DEF Widths

\* fread stores what is left of a frame, and meets the end of the file unless a
\* whole frame is left.
LEMMA FrameRead ==
  ASSUME NEW f, f.len \in Nat, NEW start \in Nat, start <= f.len, NEW w \in Widths,
         NEW p \in Nat, NEW num \in Nat, p <= (f.len - start) \div w
  PROVE  LET r == read_samples(f, start + p * w, num, w)
             a == (f.len - start) \div w
         IN /\ a \in Nat
            /\ r.got = IF num <= a - p THEN num ELSE a - p
            /\ r.eof <=> a - p < num
            /\ r.partial <=> a - p < num /\ (f.len - start) % w # 0
            /\ ~r.eof => r.pos = start + (p + num) * w
            /\ ((start + p * w) - start) \div w = p
<1> DEFINE rest == f.len - start
           a == rest \div w
           left == Max({0, f.len - (start + p * w)})
           got == Min({num, left \div w})
           r == read_samples(f, start + p * w, num, w)
<1>1. rest \in Nat /\ p <= rest \div w
  OBVIOUS
<1>2. /\ a \in Nat /\ p * w \in Nat /\ p * w <= rest
      /\ (rest - p * w) \div w = a - p /\ (rest - p * w) % w = rest % w
      /\ (p * w) \div w = p
  <2> HIDE DEF rest
  <2> QED
    BY <1>1, SamplesLeft
<1>3. left = rest - p * w /\ left \in Nat
  <2>1. f.len - (start + p * w) = rest - p * w /\ rest - p * w \in Nat
    BY <1>1, <1>2
  <2> QED
    BY <2>1, MaxOfTwo
<1>4. left \div w = a - p /\ left % w = rest % w
  BY <1>2, <1>3
<1>5. got = IF num <= a - p THEN num ELSE a - p
  <2>1. a - p \in Int
    BY <1>2
  <2> HIDE DEF a, left
  <2> QED
    BY <1>4, <2>1, MinOfTwo
<1>6. r = [got |-> got, partial |-> got < num /\ left % w # 0,
           pos |-> IF got < num THEN (start + p * w) + left ELSE (start + p * w) + got * w,
           eof |-> got < num]
  BY Zenon DEF read_samples
<1>7. /\ r.got = got /\ r.eof = (got < num) /\ r.partial = (got < num /\ left % w # 0)
      /\ r.pos = IF got < num THEN (start + p * w) + left ELSE (start + p * w) + got * w
  <2> HIDE DEF r, got, left
  <2>1. r.got = got
    BY <1>6, Zenon
  <2>2. r.eof = (got < num)
    BY <1>6, Zenon
  <2>3. r.partial = (got < num /\ left % w # 0)
    BY <1>6, Zenon
  <2>4. r.pos = IF got < num THEN (start + p * w) + left ELSE (start + p * w) + got * w
    BY <1>6, Zenon
  <2> QED
    BY <2>1, <2>2, <2>3, <2>4
<1> HIDE DEF r, got, left, a
<1>8. got < num <=> a - p < num
  BY <1>2, <1>5
<1>9. r.eof <=> a - p < num
  BY <1>7, <1>8, Zenon
<1>10. r.partial <=> a - p < num /\ rest % w # 0
  BY <1>4, <1>7, <1>8, Zenon
<1>11. ~r.eof => r.pos = start + (p + num) * w
  <2> SUFFICES ASSUME ~r.eof
               PROVE  r.pos = start + (p + num) * w
    OBVIOUS
  <2>1. ~(got < num) /\ r.pos = (start + p * w) + got * w
    BY <1>7, Zenon
  <2>2. got = num
    BY <1>2, <1>5, <2>1
  <2>3. CASE w = 2
    BY <2>1, <2>2, <2>3
  <2>4. CASE w = 4
    BY <2>1, <2>2, <2>4
  <2> QED
    BY <2>3, <2>4 DEF Widths
<1>12. ((start + p * w) - start) \div w = p
  <2>1. (start + p * w) - start = p * w
    BY <1>2
  <2> QED
    BY <1>2, <2>1
<1> QED
  BY <1>2, <1>5, <1>7, <1>9, <1>10, <1>11, <1>12 DEF r, a
-----------------------------------------------------------------------------
(***************************************************************************)
(* The steps before the loop.                                              *)
(***************************************************************************)
LEMMA SourcesOfDriver ==
  ASSUME driver \in Drivers
  PROVE  /\ "in" \in Sources /\ Sources \subseteq Streams
         /\ driver = TestApmNs => Sources = {"in"}
         /\ SampleWidth \in Widths
<1> DEFINE reads == driver.reads
<1>1. reads = <<"in">> \/ reads = <<"ref", "in">>
  BY DEF Drivers, TestNs, TestAgc, TestApmAgc, TestAec, TestAecm, TestVad, TestResampler,
         TestApmNs, TestApmNsFloat
<1>2. driver = TestApmNs => reads = <<"in">>
  BY DEF TestApmNs
<1>3. Sources = {reads[i] : i \in DOMAIN reads}
  BY DEF Sources
<1> HIDE DEF reads
<1>4. reads = <<"in">> => Sources = {"in"}
  BY <1>3
<1>5. reads = <<"ref", "in">> => Sources = {"ref", "in"}
  BY <1>3
<1>6. SampleWidth \in Widths
  BY DEF SampleWidth, Widths
<1> QED
  BY <1>1, <1>2, <1>4, <1>5, <1>6 DEF Streams

\* A header that has not been read.
LEMMA NoHeaderType == NoHeader \in WavHeader /\ NoHeader.start = 0
BY Zenon DEF NoHeader, WavHeader, NoFormat, WavFormat

\* A driver starts in the invariant.
LEMMA InitDInv == Init => DInv
<1> SUFFICES ASSUME Init
             PROVE  DInv
  OBVIOUS
<1>1. /\ driver \in Drivers /\ pc = "open" /\ ret = "running" /\ length = 0
      /\ header = [s \in Streams |-> NoHeader] /\ written = NoHeader
      /\ pos = [s \in Streams |-> 0] /\ eof = [s \in Streams |-> FALSE]
      /\ out = <<>> /\ frm_cnt = 0
  BY DEF Init
<1>2. outRate \in Nat
  BY OutRatesAssumption DEF Init
<1>3. file["in"] \in WavFile /\ file["ref"] \in WavFile
  BY FilesAssumption DEF Init
<1>4. \A s \in Streams : file[s] \in WavFile /\ file[s].len \in Nat
  BY <1>3 DEF Streams, WavFile
<1>5. header \in [Streams -> WavHeader]
  BY <1>1, NoHeaderType
<1>6. Types
  BY <1>1, <1>2, <1>4, <1>5 DEF Types, Early
<1>7. StartInFile
  BY <1>1, <1>4, NoHeaderType DEF StartInFile
<1>8. NothingRead
  BY <1>1, NoHeaderType DEF NothingRead
<1>9. WrittenHeader /\ Positions /\ Progress /\ Buffer /\ Ended
  BY <1>1 DEF WrittenHeader, Positions, Progress, Buffer, Ended, Looping
<1>10. SamplesInPlace /\ EndsAligned
  BY <1>1 DEF SamplesInPlace, EndsAligned
<1> QED
  BY <1>6, <1>7, <1>8, <1>9, <1>10 DEF DInv

\* What stays of the invariant when only pc and ret move, to the next stage or to
\* an end before the loop is done.
LEMMA MovedOn ==
  ASSUME DInv, UNCHANGED <<driver, outRate, file, header, length, loop>>,
         pc # "done", pc # "loop" \/ pc' # "loop",
         ret' # "ok", pc' \in {"header", "start", "done"},
         pc' = "header" => pc = "open", pc' = "start" => pc \in Early,
         WrittenHeader'
  PROVE  DInv'
<1>1. /\ UNCHANGED <<driver, outRate, file, header, length, pos, eof, buf, out, frm_cnt>>
      /\ Looping' = FALSE /\ pc' # "loop"
  BY DEF loop, Looping
<1>2. Types'
  BY <1>1 DEF DInv, Types, Early
<1>3. StartInFile'
  BY <1>1 DEF DInv, StartInFile
<1>4. NothingRead'
  BY <1>1 DEF DInv, NothingRead, Early
<1>5. Positions' /\ Progress' /\ Buffer' /\ Ended'
  BY <1>1 DEF Positions, Progress, Buffer, Ended
<1>6. SamplesInPlace' /\ EndsAligned'
  BY <1>1 DEF DInv, SamplesInPlace, EndsAligned, SampleOf, Available, EndsTorn, SampleWidth
<1> QED
  BY <1>2, <1>3, <1>4, <1>5, <1>6 DEF DInv

\* Open, AgcFails, ReadsBehindBuffer and ProcessUndefined
LEMMA PlainSteps ==
  ASSUME DInv, Open \/ AgcFails \/ ReadsBehindBuffer \/ ProcessUndefined
  PROVE  DInv'
<1>1. CASE Open
  <2>1. /\ pc = "open" /\ UNCHANGED <<driver, outRate, file, header, written, length, loop>>
        /\ \/ pc' = "done" /\ ret' = "refused"
           \/ pc' \in {"header", "start"} /\ ret' = ret
    BY <1>1 DEF Open, Stop, Go, setup
  <2>2. ret # "ok"
    BY <2>1 DEF DInv, Ended
  <2>3. WrittenHeader'
    BY <2>1 DEF DInv, WrittenHeader, Retagged
  <2> QED
    BY <2>1, <2>2, <2>3, MovedOn DEF Early
<1>2. CASE AgcFails \/ ReadsBehindBuffer \/ ProcessUndefined
  <2>1. /\ pc = "loop" /\ UNCHANGED <<driver, outRate, file, header, written, length, loop>>
        /\ pc' = "done" /\ ret' \in {"refused", "crashed"}
    BY <1>2 DEF AgcFails, ReadsBehindBuffer, ProcessUndefined, Stop, setup
  <2>2. WrittenHeader'
    BY <2>1 DEF DInv, WrittenHeader, Retagged
  <2> QED
    BY <2>1, <2>2, MovedOn
<1> QED
  BY <1>1, <1>2

\* Reading the headers leaves every stream at the start of its samples.
LEMMA ReadHeadersStep ==
  ASSUME DInv, ReadHeaders
  PROVE  DInv'
<1>1. /\ pc = "header" /\ UNCHANGED <<driver, outRate, file, written, length, eof, buf, out, frm_cnt>>
      /\ header' = [s \in Streams |-> IF s \in Sources THEN read_header(file[s]) ELSE NoHeader]
      /\ \/ pc' = "format" /\ ret' = ret /\ pos' = [s \in Streams |-> header'[s].start]
         \/ pc' = "done" /\ ret' = "refused"
  BY DEF ReadHeaders, Stop, Go, setup
<1>2. ret' # "ok" /\ Looping' = FALSE /\ pc' # "loop"
  BY <1>1 DEF DInv, Ended, Looping
<1>3. driver \in Drivers /\ out = <<>> /\ frm_cnt = 0 /\ \A s \in Streams : ~eof[s]
  BY <1>1 DEF DInv, Types, NothingRead, Early
<1>4. ASSUME NEW s \in Streams
      PROVE  header'[s] \in WavHeader /\ header'[s].start <= file[s].len
  <2>1. file[s] \in WavFile /\ file[s].len \in Nat
    BY DEF DInv, Types, WavFile
  <2> QED
    BY <1>1, <2>1, HeaderInFile, NoHeaderType
<1>5. header' \in [Streams -> WavHeader]
  BY <1>1, <1>4
<1>6. Types'
  BY <1>1, <1>5 DEF DInv, Types, Early
<1>7. StartInFile'
  BY <1>1, <1>4 DEF StartInFile
<1>8. NothingRead'
  <2>1. "in" \in Sources /\ "in" \in Streams
    BY <1>3, SourcesOfDriver DEF Streams
  <2>2. header'["in"] = read_header(file["in"])
    BY <1>1, <2>1
  <2> QED
    BY <1>1, <1>3, <2>2 DEF NothingRead, Early
<1>9. WrittenHeader'
  BY <1>1 DEF DInv, WrittenHeader, Retagged
<1>10. Positions' /\ Progress' /\ Buffer' /\ Ended'
  BY <1>2 DEF Positions, Progress, Buffer, Ended
<1>11. SamplesInPlace' /\ EndsAligned'
  BY <1>1, <1>2, <1>3 DEF SamplesInPlace, EndsAligned
<1> QED
  BY <1>6, <1>7, <1>8, <1>9, <1>10, <1>11 DEF DInv

\* Changing the rate of a header changes nothing else.
LEMMA RetaggedHeader ==
  ASSUME NEW h \in WavHeader, outRate \in Nat
  PROVE  Retagged(h) \in WavHeader /\ Retagged(h).start = h.start
         /\ Retagged(h).ok = h.ok
         /\ Retagged(h).riffSize = h.riffSize /\ Retagged(h).dataSize = h.dataSize
         /\ Retagged(h).format = IF driver = TestResampler
                                   THEN [h.format EXCEPT !.rate = outRate] ELSE h.format
<1> DEFINE g == [h EXCEPT !.format.rate = outRate]
<1>1. h.format \in WavFormat
  BY DEF WavHeader
<1>2. g = [h EXCEPT !.format = [h.format EXCEPT !.rate = outRate]]
  OBVIOUS
<1>3. [h.format EXCEPT !.rate = outRate] \in WavFormat
  BY <1>1 DEF WavFormat
<1>4. g \in WavHeader /\ g.start = h.start /\ g.ok = h.ok
      /\ g.riffSize = h.riffSize /\ g.dataSize = h.dataSize
      /\ g.format = [h.format EXCEPT !.rate = outRate]
  BY <1>2, <1>3, Zenon DEF WavHeader
<1> HIDE DEF g
<1>5. Retagged(h) = IF driver = TestResampler THEN g ELSE h
  BY DEF Retagged, g
<1> QED
  BY <1>4, <1>5, Zenon

\* The format check, and writing the header of the result, keep the invariant.
LEMMA CheckFormatStep ==
  ASSUME DInv, CheckFormat
  PROVE  DInv'
<1>1. /\ pc = "format" /\ UNCHANGED <<driver, outRate, file, length, pos, eof, buf, out, frm_cnt>>
      /\ header' = [header EXCEPT !["in"] = Retagged(header["in"])]
      /\ \/ pc' = "start" /\ ret' = ret
         \/ pc' = "done" /\ ret' \in {"refused", "aborted"}
      /\ written' \in {NoHeader, header'["in"], written}
  BY DEF CheckFormat, Stop, Go, setup, loop
<1>2. ret' # "ok" /\ Looping' = FALSE /\ pc' # "loop"
  BY <1>1 DEF DInv, Ended, Looping
<1>3. /\ out = <<>> /\ frm_cnt = 0 /\ \A s \in Streams : pos[s] = header[s].start /\ ~eof[s]
      /\ header \in [Streams -> WavHeader] /\ outRate \in Nat
      /\ header["in"] = read_header(file["in"])
  BY <1>1 DEF DInv, Types, NothingRead, Early
<1>4. "in" \in Streams /\ header["in"] \in WavHeader
  BY <1>3 DEF Streams
<1>5. /\ Retagged(header["in"]) \in WavHeader
      /\ Retagged(header["in"]).start = header["in"].start
  BY <1>3, <1>4, RetaggedHeader
<1>6. /\ header' \in [Streams -> WavHeader] /\ header'["in"] = Retagged(header["in"])
      /\ \A s \in Streams : header'[s].start = header[s].start
  <2>1. \A s \in Streams : header'[s] = IF s = "in" THEN Retagged(header["in"]) ELSE header[s]
    BY <1>1, <1>3, <1>4
  <2>2. header' = [s \in Streams |-> header'[s]]
    BY <1>1, <1>3
  <2> QED
    BY <1>3, <1>4, <1>5, <2>1, <2>2
<1>7. Types'
  BY <1>1, <1>6 DEF DInv, Types, Early
<1>8. StartInFile'
  BY <1>1, <1>6 DEF DInv, StartInFile
<1>9. NothingRead'
  BY <1>1, <1>3, <1>6 DEF NothingRead, Early
<1>10. WrittenHeader'
  <2>1. Retagged(read_header(file["in"]))' = Retagged(read_header(file["in"]))
    BY <1>1 DEF Retagged
  <2>2. header'["in"] = Retagged(read_header(file["in"]))
    BY <1>3, <1>6
  <2> QED
    BY <1>1, <2>1, <2>2 DEF DInv, WrittenHeader
<1>11. Positions' /\ Progress' /\ Buffer' /\ Ended'
  BY <1>2 DEF Positions, Progress, Buffer, Ended
<1>12. SamplesInPlace' /\ EndsAligned'
  BY <1>1, <1>2, <1>3 DEF SamplesInPlace, EndsAligned
<1> QED
  BY <1>7, <1>8, <1>9, <1>10, <1>11, <1>12 DEF DInv

\* A frame length is a natural number, after all conversions to 16 bits.
LEMMA FrameLengthNat ==
  ASSUME header["in"] \in WavHeader
  PROVE  FrameLength \in Nat
<1> DEFINE format == header["in"].format
           tenMs == uint16(format.rate \div 100)
<1>1. format.rate \in Nat /\ format.channels \in Nat
  BY DEF WavHeader, WavFormat
<1>2. \A n \in Nat : uint16(n) \in Nat
  BY DEF uint16
<1>3. format.rate \div 100 \in Nat
  BY <1>1
<1>4. tenMs \in Nat
  BY <1>2, <1>3
<1>5. FrameLength = CASE driver \in GainControls -> IF format.rate = 8000 THEN 80 ELSE 160
                      [] driver = TestApmNs -> format.channels * tenMs
                      [] driver = TestApmNsFloat -> 2 * 480
                      [] OTHER -> tenMs
  BY Zenon DEF FrameLength
<1> HIDE DEF tenMs, format
<1>6. format.channels * tenMs \in Nat
  BY <1>1, <1>4
<1>7. FrameLength \in {80, 160, format.channels * tenMs, 2 * 480, tenMs}
  BY <1>5
<1> QED
  BY <1>4, <1>6, <1>7

\* How many whole samples a file has.
LEMMA AvailableNat ==
  ASSUME DInv, NEW s \in Streams
  PROVE  /\ Available(s) \in Nat /\ SampleWidth \in Widths
         /\ file[s].len \in Nat /\ header[s].start \in Nat /\ header[s].start <= file[s].len
<1>1. /\ file[s].len \in Nat /\ header[s].start \in Nat /\ header[s].start <= file[s].len
      /\ SampleWidth \in Widths
  BY SourcesOfDriver DEF DInv, Types, StartInFile, WavFile, WavHeader
<1>2. Available(s) \in Nat
  <2>1. file[s].len - header[s].start \in Nat
    BY <1>1
  <2> QED
    BY <1>1, <2>1 DEF Available, Widths
<1> QED
  BY <1>1, <1>2

\* Setting up the modules keeps the invariant.
LEMMA StartStep ==
  ASSUME DInv, Start
  PROVE  DInv'
<1>1. /\ pc = "start"
      /\ UNCHANGED <<driver, outRate, file, header, written, pos, eof, out, frm_cnt>>
      /\ \/ pc' = "done" /\ ret' \in {"refused", "aborted", "crashed"} /\ UNCHANGED <<length, buf>>
         \/ /\ pc' = "loop" /\ ret' = ret /\ length' = FrameLength
            /\ buf' = [s \in Streams |-> [k \in 1 .. length' |-> Silence]]
  BY DEF Start, Stop, Go, setup
<1>2. WrittenHeader'
  BY <1>1 DEF DInv, WrittenHeader, Retagged
<1>3. CASE pc' = "done"
  <2>1. UNCHANGED <<driver, outRate, file, header, length, loop>> /\ ret' # "ok"
    BY <1>1, <1>3 DEF loop
  <2> QED
    BY <1>1, <1>2, <1>3, <2>1, MovedOn
<1>4. CASE pc' = "loop"
  <2>1. ret' # "ok" /\ length' \in Nat
        /\ buf' = [s \in Streams |-> [k \in 1 .. length' |-> Silence]]
    BY <1>1, <1>4, FrameLengthNat DEF DInv, Ended, Types, Streams
  <2>2. /\ out = <<>> /\ frm_cnt = 0 /\ driver \in Drivers
        /\ \A s \in Streams : pos[s] = header[s].start /\ ~eof[s]
    BY <1>1 DEF DInv, NothingRead, Early, Types
  <2>0. frm_cnt' * length' = 0
    <3>1. frm_cnt' = 0 /\ length' \in Nat
      BY <1>1, <2>1, <2>2
    <3>2. \A x \in Nat : 0 * x = 0
      OBVIOUS
    <3> QED
      BY <3>1, <3>2, Zenon
  <2>3. Types'
    BY <1>1, <1>4, <2>1 DEF DInv, Types
  <2>4. StartInFile' /\ NothingRead'
    BY <1>1, <1>4 DEF DInv, StartInFile, NothingRead, Early
  <2>5. Positions'
    <3> SUFFICES ASSUME NEW s \in Sources
                 PROVE  Position(s)'
      BY <1>1 DEF Positions, Sources
    <3>1. s \in Streams
      BY <2>2, SourcesOfDriver
    <3>2. Available(s)' = Available(s) /\ SampleWidth' = SampleWidth
      BY <1>1 DEF Available, SampleWidth
    <3>3. Available(s) \in Nat /\ SampleWidth \in Nat /\ header[s].start \in Nat
      BY <3>1, AvailableNat DEF Widths
    <3>4. 0 * SampleWidth = 0
      BY <3>3
    <3> QED
      BY <1>1, <2>0, <2>2, <3>1, <3>2, <3>3, <3>4 DEF Position
  <2>6. Progress'
    <3>1. Len(out') = 0
      BY <1>1, <2>2
    <3>2. ~eof'["in"]
      BY <1>1, <2>2 DEF Streams
    <3> QED
      BY <2>0, <3>1, <3>2 DEF Progress
  <2>7. Buffer'
    <3>1. Sources' = Sources /\ Sources \subseteq Streams
      BY <1>1, <2>2, SourcesOfDriver DEF Sources
    <3>2. \A s \in Streams, k \in 1 .. length' : buf'[s][k] = Silence
      BY <2>1
    <3>3. frm_cnt' = 0
      BY <1>1, <2>2
    <3> QED
      BY <3>1, <3>2, <3>3 DEF Buffer, Holds
  <2>8. Ended' /\ SamplesInPlace' /\ EndsAligned'
    BY <1>1, <2>1, <2>2 DEF Ended, SamplesInPlace, EndsAligned
  <2> QED
    BY <1>2, <2>3, <2>4, <2>5, <2>6, <2>7, <2>8 DEF DInv
<1> QED
  BY <1>1, <1>3, <1>4

\* Closing the files keeps the invariant.
LEMMA CloseStep ==
  ASSUME DInv, Close
  PROVE  DInv'
<1>1. /\ pc = "loop" /\ ~Reading /\ pc' = "done" /\ ret' = "ok"
      /\ UNCHANGED <<driver, outRate, file, header, written, length, pos, eof, buf, out, frm_cnt>>
  BY DEF Close, Stop, setup, loop
<1>2. Types' /\ StartInFile' /\ NothingRead'
  BY <1>1 DEF DInv, Types, StartInFile, NothingRead, Early
<1>3. WrittenHeader'
  BY <1>1 DEF DInv, WrittenHeader, Retagged
<1>4. Positions' /\ Progress'
  BY <1>1 DEF DInv, Positions, Progress, Position, Looping, Available, SampleWidth, Sources
<1>5. Buffer' /\ Ended' /\ EndsAligned'
  BY <1>1 DEF Buffer, Ended, Reading, Sources, EndsAligned
<1>6. SamplesInPlace'
  BY <1>1 DEF DInv, SamplesInPlace, SampleOf, Available, EndsTorn, SampleWidth
<1> QED
  BY <1>2, <1>3, <1>4, <1>5, <1>6 DEF DInv

\* A step that changes nothing keeps the invariant.
LEMMA StutterStep ==
  ASSUME DInv, UNCHANGED vars
  PROVE  DInv'
<1>1. UNCHANGED <<driver, outRate, file, pc, ret, header, written, length, pos, eof, buf, out,
                  frm_cnt>>
  BY DEF vars, setup, loop
<1>2. Types' /\ StartInFile' /\ NothingRead'
  BY <1>1 DEF DInv, Types, StartInFile, NothingRead, Early
<1>3. WrittenHeader'
  BY <1>1 DEF DInv, WrittenHeader, Retagged
<1>4. Positions' /\ Progress'
  BY <1>1 DEF DInv, Positions, Progress, Position, Looping, Available, SampleWidth, Sources
<1>5. Buffer' /\ Ended'
  BY <1>1 DEF DInv, Buffer, Holds, Ended, Reading, Sources
<1>6. SamplesInPlace' /\ EndsAligned'
  BY <1>1 DEF DInv, SamplesInPlace, EndsAligned, SampleOf, Available, EndsTorn, SampleWidth,
              Sources
<1> QED
  BY <1>2, <1>3, <1>4, <1>5, <1>6 DEF DInv
-----------------------------------------------------------------------------
(***************************************************************************)
(* One iteration of the loop.                                              *)
(***************************************************************************)
Behind == frm_cnt * length

\* The samples of whole frames.
LEMMA FramesBefore ==
  ASSUME NEW c \in Nat, NEW n \in Nat
  PROVE  /\ c * n \in Nat /\ (c + 1) * n = c * n + n /\ ((c + 1) - 1) * n = c * n
         /\ c = 0 => c * n = 0
         /\ c > 0 => (c - 1) * n = c * n - n /\ c * n >= n
<1>1. c * n \in Nat /\ (c + 1) * n = c * n + n
  BY Z3
<1>2. (c + 1) - 1 = c
  OBVIOUS
<1>3. c > 0 => (c - 1) * n = c * n - n /\ c * n >= n
  <2> SUFFICES ASSUME c > 0
               PROVE  (c - 1) * n = c * n - n /\ c * n >= n
    OBVIOUS
  <2>1. PICK d \in Nat : c = d + 1
    <3>1. c - 1 \in Nat /\ c = (c - 1) + 1
      OBVIOUS
    <3> QED
      BY <3>1
  <2>2. d * n \in Nat /\ c * n = d * n + n
    BY <2>1, Z3
  <2>3. c - 1 = d
    BY <2>1
  <2> QED
    BY <2>2, <2>3
<1>4. c = 0 => c * n = 0
  OBVIOUS
<1> QED
  BY <1>1, <1>2, <1>3, <1>4

\* What the read of one file returns.
LEMMA ReadOne ==
  ASSUME DInv, pc = "loop", Reading, NEW s \in Sources
  PROVE  /\ s \in Streams /\ Behind \in Nat /\ Behind <= Available(s)
         /\ Read(s).got = IF length <= Available(s) - Behind THEN length
                          ELSE Available(s) - Behind
         /\ Read(s).eof <=> Available(s) - Behind < length
         /\ Read(s).partial <=> Available(s) - Behind < length /\ EndsTorn(s)
         /\ ~Read(s).eof => Read(s).pos = header[s].start + (Behind + length) * SampleWidth
         /\ (pos[s] - header[s].start) \div SampleWidth = Behind
<1>1. s \in Streams
  BY SourcesOfDriver DEF DInv, Types
<1>2. length \in Nat /\ frm_cnt \in Nat
  BY DEF DInv, Types
<1>3. Behind \in Nat
  BY <1>2, FramesBefore DEF Behind
<1>4. ~eof[s]
  BY DEF Reading
<1>5. Behind <= Available(s) /\ pos[s] = header[s].start + Behind * SampleWidth
  BY <1>4 DEF DInv, Positions, Position, Looping, Behind
<1>6. /\ Available(s) = (file[s].len - header[s].start) \div SampleWidth
      /\ EndsTorn(s) <=> (file[s].len - header[s].start) % SampleWidth # 0
      /\ Read(s) = read_samples(file[s], header[s].start + Behind * SampleWidth, length, SampleWidth)
  BY <1>5 DEF Available, EndsTorn, Read
<1>7. /\ SampleWidth \in Widths /\ file[s].len \in Nat /\ header[s].start \in Nat
      /\ header[s].start <= file[s].len
  BY <1>1, AvailableNat
<1>8. Behind <= (file[s].len - header[s].start) \div SampleWidth
  BY <1>5, <1>6
<1> DEFINE r == read_samples(file[s], header[s].start + Behind * SampleWidth, length, SampleWidth)
           a == (file[s].len - header[s].start) \div SampleWidth
<1>9. /\ r.got = IF length <= a - Behind THEN length ELSE a - Behind
      /\ r.eof <=> a - Behind < length
      /\ r.partial <=> a - Behind < length /\ (file[s].len - header[s].start) % SampleWidth # 0
      /\ ~r.eof => r.pos = header[s].start + (Behind + length) * SampleWidth
      /\ ((header[s].start + Behind * SampleWidth) - header[s].start) \div SampleWidth = Behind
  BY <1>2, <1>3, <1>7, <1>8, FrameRead
<1>10. a = Available(s) /\ r = Read(s)
  BY <1>6
<1> HIDE DEF a, r
<1> QED
  BY <1>1, <1>3, <1>5, <1>6, <1>9, <1>10

\* The buffer of a file after the read: sample k of the frame, or what the
\* file could not give.
LEMMA FilledFrame ==
  ASSUME DInv, pc = "loop", Reading, NEW s \in Sources
  PROVE  LET b == Filled(s, Read(s))
             left == Available(s) - Behind
         IN /\ b \in Seq(Int) /\ Len(b) = length
            /\ \A k \in 1 .. length :
                 b[k] = IF k <= left THEN Behind + k
                        ELSE IF k = left + 1 /\ EndsTorn(s) THEN Torn
                        ELSE IF frm_cnt = 0 THEN Silence ELSE (Behind - length) + k
<1> DEFINE b == Filled(s, Read(s))
           left == Available(s) - Behind
           r == Read(s)
<1>2. /\ s \in Streams /\ Behind \in Nat /\ Behind <= Available(s)
      /\ r.got = IF length <= left THEN length ELSE left
      /\ r.partial <=> left < length /\ EndsTorn(s)
      /\ (pos[s] - header[s].start) \div SampleWidth = Behind
  BY ReadOne
<1>3. length \in Nat /\ frm_cnt \in Nat /\ Available(s) \in Nat /\ left \in Nat
  <2>1. length \in Nat /\ frm_cnt \in Nat /\ Available(s) \in Nat
    BY <1>2, AvailableNat DEF DInv, Types
  <2> QED
    BY <1>2, <2>1
<1>4. \A k \in 1 .. length :
        buf[s][k] = IF frm_cnt = 0 THEN Silence ELSE (frm_cnt - 1) * length + k
  BY DEF DInv, Buffer, Holds, Reading
<1>5. frm_cnt # 0 => (frm_cnt - 1) * length = Behind - length
  BY <1>3, FramesBefore DEF Behind
<1>6. b = [k \in 1 .. length |->
             IF k <= r.got THEN Behind + k
             ELSE IF k = r.got + 1 /\ r.partial THEN Torn
             ELSE buf[s][k]]
  BY <1>2 DEF Filled
<1> HIDE DEF b, r, left
<1>7. ASSUME NEW k \in 1 .. length
      PROVE  b[k] = IF k <= left THEN Behind + k
                    ELSE IF k = left + 1 /\ EndsTorn(s) THEN Torn
                    ELSE IF frm_cnt = 0 THEN Silence ELSE (Behind - length) + k
  <2>1. b[k] = IF k <= r.got THEN Behind + k
               ELSE IF k = r.got + 1 /\ r.partial THEN Torn
               ELSE buf[s][k]
    BY <1>6
  <2>2. k <= r.got <=> k <= left
    BY <1>2, <1>3
  <2>3. k > left => r.got = left /\ (r.partial <=> EndsTorn(s))
    BY <1>2, <1>3
  <2>4. buf[s][k] = IF frm_cnt = 0 THEN Silence ELSE (Behind - length) + k
    BY <1>4, <1>5
  <2>5. CASE k <= left
    BY <2>1, <2>2, <2>5
  <2>6. CASE ~(k <= left)
    <3>1. r.got = left /\ (r.partial <=> EndsTorn(s))
      BY <1>3, <2>3, <2>6
    <3> QED
      BY <2>1, <2>2, <2>4, <2>6, <3>1
  <2> QED
    BY <2>5, <2>6
<1>8. \A k \in 1 .. length : b[k] \in Int
  BY <1>2, <1>3, <1>7 DEF Torn, Silence
<1>9. b \in Seq(Int) /\ Len(b) = length
  <2>1. b = [k \in 1 .. length |-> b[k]]
    BY <1>6
  <2> QED
    BY <1>3, <1>8, <2>1
<1> QED
  BY <1>7, <1>9 DEF b, left

\* It holds the samples of the file from the place the frame begins at.
LEMMA FilledIsSample ==
  ASSUME DInv, pc = "loop", Reading, NEW s \in Sources, NEW k \in 1 .. length
  PROVE  Filled(s, Read(s))[k] = SampleOf(s, Behind + k)
<1> DEFINE b == Filled(s, Read(s))
           left == Available(s) - Behind
<1>1. b[k] = IF k <= left THEN Behind + k
             ELSE IF k = left + 1 /\ EndsTorn(s) THEN Torn
             ELSE IF frm_cnt = 0 THEN Silence ELSE (Behind - length) + k
  BY FilledFrame
<1>2. /\ length \in Nat /\ frm_cnt \in Nat /\ Available(s) \in Nat /\ Behind \in Nat
      /\ frm_cnt = 0 => Behind = 0
      /\ frm_cnt # 0 => Behind >= length
  <2>1. s \in Streams /\ length \in Nat /\ frm_cnt \in Nat
    BY ReadOne DEF DInv, Types
  <2> QED
    BY <2>1, AvailableNat, FramesBefore DEF Behind
<1> HIDE DEF b
<1>3. /\ Behind + k <= Available(s) <=> k <= left
      /\ Behind + k = Available(s) + 1 <=> k = left + 1
  BY <1>2
<1>4. IF frm_cnt = 0 THEN ~(Behind + k > length)
      ELSE Behind + k > length /\ (Behind - length) + k = (Behind + k) - length
  BY <1>2
<1> HIDE DEF left
<1>5. b[k] = SampleOf(s, Behind + k)
  BY <1>1, <1>3, <1>4 DEF SampleOf
<1> QED
  BY <1>5 DEF b

\* One iteration of the loop: a frame is read, processed and written.
LEMMA IterateStep ==
  ASSUME DInv, Iterate
  PROVE  DInv'
<1> DEFINE b == Filled("in", Read("in"))
           left == Available("in") - Behind
           count == WrittenCount(Read("in"))
<1>1. /\ pc = "loop" /\ Reading /\ pc' = "loop" /\ frm_cnt' = frm_cnt + 1
      /\ UNCHANGED <<driver, outRate, file, ret, header, written, length>>
      /\ pos' = [s \in Streams |-> IF s \in Sources THEN Read(s).pos ELSE pos[s]]
      /\ eof' = [s \in Streams |-> s \in Sources /\ Read(s).eof]
      /\ buf' = [s \in Streams |-> IF s \in Sources THEN Filled(s, Read(s)) ELSE buf[s]]
      /\ out' = out \o SubSeq(buf'["in"], 1, count)
  <2>1. "in" \in Sources
    BY SourcesOfDriver DEF DInv, Types
  <2> QED
    BY <2>1 DEF Iterate, setup
<1>2. "in" \in Sources /\ Sources \subseteq Streams /\ "in" \in Streams
  BY SourcesOfDriver DEF DInv, Types, Streams
<1>3. /\ length \in Nat /\ frm_cnt \in Nat /\ out \in Seq(Int) /\ Behind \in Nat
      /\ Available("in") \in Nat /\ left \in Nat /\ Behind <= Available("in")
  <2>1. Behind \in Nat /\ Behind <= Available("in") /\ Available("in") \in Nat
    BY <1>1, <1>2, ReadOne, AvailableNat
  <2> QED
    BY <2>1 DEF DInv, Types
<1>4. buf'["in"] = b /\ b \in Seq(Int) /\ Len(b) = length
  BY <1>1, <1>2, FilledFrame
<1>5. \A s \in Sources : /\ eof'[s] <=> Available(s) - Behind < length
                         /\ ~eof'[s] => pos'[s] = header[s].start + (Behind + length) * SampleWidth
                         /\ Available(s) \in Nat /\ Behind <= Available(s)
  <2> SUFFICES ASSUME NEW s \in Sources
               PROVE  /\ eof'[s] <=> Available(s) - Behind < length
                      /\ ~eof'[s] => pos'[s] = header[s].start + (Behind + length) * SampleWidth
                      /\ Available(s) \in Nat /\ Behind <= Available(s)
    OBVIOUS
  <2>1. s \in Streams /\ (eof'[s] <=> Read(s).eof) /\ pos'[s] = Read(s).pos
    BY <1>1, <1>2
  <2> QED
    BY <1>1, <2>1, ReadOne, AvailableNat
<1>6. count = IF driver = TestApmNs /\ left < length THEN left ELSE length
  <2>1. Read("in").got = IF length <= left THEN length ELSE left
    BY <1>1, <1>2, ReadOne
  <2> HIDE DEF left
  <2> QED
    BY <1>3, <2>1 DEF WrittenCount
<1>7. count \in 0 .. length
  BY <1>3, <1>6
<1>8. /\ frm_cnt' * length' = Behind + length
      /\ (frm_cnt' - 1) * length' = Behind
      /\ frm_cnt = 0 => Behind = 0
      /\ frm_cnt # 0 => Behind >= length
  <2>1. /\ (frm_cnt + 1) * length = Behind + length /\ ((frm_cnt + 1) - 1) * length = Behind
        /\ (frm_cnt = 0 => Behind = 0) /\ (frm_cnt # 0 => Behind >= length)
    BY <1>3, FramesBefore DEF Behind
  <2> QED
    BY <1>1, <1>3, FramesBefore DEF Behind
<1>9. \A s \in Streams : Available(s)' = Available(s) /\ (EndsTorn(s)' <=> EndsTorn(s))
  BY <1>1 DEF Available, EndsTorn, SampleWidth
<1>10. Len(out) = Behind /\ ~eof["in"]
  BY <1>1, <1>2 DEF DInv, Progress, Looping, Reading, Behind
<1> HIDE DEF b, left, count
<1>11. /\ out' \in Seq(Int) /\ Len(out') = Behind + count
       /\ \A k \in 1 .. Behind : out'[k] = out[k]
       /\ \A j \in 1 .. count : out'[Behind + j] = b[j]
  <2> DEFINE part == SubSeq(b, 1, count)
  <2>1. part \in Seq(Int) /\ Len(part) = count /\ \A j \in 1 .. count : part[j] = b[j]
    BY <1>3, <1>4, <1>7
  <2>2. out' = out \o part
    BY <1>1, <1>4
  <2> HIDE DEF part
  <2>3. /\ out' \in Seq(Int) /\ Len(out') = Len(out) + Len(part)
        /\ \A k \in 1 .. Len(out) + Len(part) :
             out'[k] = IF k <= Len(out) THEN out[k] ELSE part[k - Len(out)]
    BY <1>3, <2>1, <2>2, ConcatProperties
  <2>4. ASSUME NEW j \in 1 .. count
        PROVE  out'[Behind + j] = b[j]
    <3>1. Behind + j \in 1 .. Behind + count /\ ~(Behind + j <= Behind)
          /\ (Behind + j) - Behind = j
      BY <1>3, <1>7
    <3> QED
      BY <1>10, <2>1, <2>3, <3>1
  <2>5. ASSUME NEW k \in 1 .. Behind
        PROVE  out'[k] = out[k]
    BY <1>3, <1>7, <1>10, <2>1, <2>3
  <2> QED
    BY <1>10, <2>1, <2>3, <2>4, <2>5
<1>12. Types'
  BY <1>1, <1>3, <1>11 DEF DInv, Types
<1>13. StartInFile' /\ NothingRead'
  BY <1>1 DEF DInv, StartInFile, NothingRead, Early
<1>14. WrittenHeader'
  BY <1>1 DEF DInv, WrittenHeader, Retagged
<1>15. Positions'
  <2> SUFFICES ASSUME NEW s \in Sources
               PROVE  Position(s)'
    BY <1>1 DEF Positions, Sources
  <2>1. /\ Available(s)' = Available(s) /\ SampleWidth' = SampleWidth /\ header'[s] = header[s]
        /\ frm_cnt' > 0
    BY <1>1, <1>2, <1>3, <1>9 DEF SampleWidth
  <2>2. CASE eof'[s]
    <3>1. Available(s) < Behind + length /\ Behind <= Available(s)
      BY <1>3, <1>5, <2>2
    <3> QED
      BY <1>8, <2>1, <2>2, <3>1 DEF Position
  <2>3. CASE ~eof'[s]
    <3>1. Behind + length <= Available(s)
          /\ pos'[s] = header[s].start + (Behind + length) * SampleWidth
      BY <1>3, <1>5, <2>3
    <3> QED
      BY <1>8, <2>1, <2>3, <3>1 DEF Position
  <2> QED
    BY <2>2, <2>3
<1>16. Progress'
  <2>1. eof'["in"] <=> left < length
    BY <1>2, <1>5 DEF left
  <2>2. Behind + left = Available("in")
    BY <1>3 DEF left
  <2>3. Len(out') = IF driver = TestApmNs /\ eof'["in"] THEN Available("in") ELSE Behind + length
    BY <1>3, <1>6, <1>11, <2>1, <2>2
  <2> QED
    BY <1>1, <1>2, <1>8, <1>9, <2>3 DEF Progress
<1>a. \A s \in Sources : \A k \in 1 .. length : buf'[s][k] = SampleOf(s, Behind + k)
  <2> SUFFICES ASSUME NEW s \in Sources, NEW k \in 1 .. length
               PROVE  buf'[s][k] = SampleOf(s, Behind + k)
    OBVIOUS
  <2>1. buf'[s] = Filled(s, Read(s))
    BY <1>1, <1>2
  <2>2. Filled(s, Read(s))[k] = SampleOf(s, Behind + k)
    BY <1>1, FilledIsSample
  <2> QED
    BY <2>1, <2>2
<1>b. Sources' = Sources /\ length' = length
  BY <1>1 DEF Sources
<1>c. EndsAligned'
  <2> SUFFICES ASSUME NEW s \in Sources, NEW k \in 1 .. length
               PROVE  buf'[s][k] = SampleOf(s, (frm_cnt - 1) * length + k)'
    BY <1>b DEF EndsAligned
  <2>1. SampleOf(s, (frm_cnt - 1) * length + k)' = SampleOf(s, Behind + k)
    BY <1>2, <1>8, <1>9, <1>b DEF SampleOf
  <2> QED
    BY <1>a, <2>1
<1>17. Buffer'
  <2>1. ASSUME NEW s \in Sources, ~eof'[s], NEW k \in 1 .. length
        PROVE  buf'[s][k] = (frm_cnt' - 1) * length' + k
    <3>1. Behind + k <= Available(s)
      BY <1>3, <1>5, <2>1
    <3>2. SampleOf(s, Behind + k) = Behind + k
      BY <3>1 DEF SampleOf
    <3> QED
      BY <1>8, <1>a, <3>2
  <2>2. frm_cnt' # 0
    BY <1>1, <1>3
  <2>3. ASSUME NEW s \in Sources
        PROVE  Holds(s)'
    <3>1. ASSUME ~eof'[s], NEW k \in 1 .. length'
          PROVE  buf'[s][k] = IF frm_cnt' = 0 THEN Silence ELSE (frm_cnt' - 1) * length' + k
      BY <1>b, <2>1, <2>2, <3>1
    <3> QED
      BY <3>1 DEF Holds
  <2> QED
    BY <1>b, <2>3 DEF Buffer
<1>18. Ended'
  BY <1>1 DEF DInv, Ended
<1>19. SamplesInPlace'
  <2> DEFINE In(k) == SampleOf("in", k)
  <2>1. \A k \in 1 .. Behind : out[k] = In(k)
    BY <1>10 DEF DInv, SamplesInPlace
  <2>2. ASSUME NEW j \in 1 .. count
        PROVE  b[j] = In(Behind + j)
    <3>1. j \in 1 .. length
      BY <1>3, <1>7
    <3> QED
      BY <1>2, <1>4, <1>a, <3>1
  <2> HIDE DEF In
  <2>3. ASSUME NEW k \in 1 .. Behind + count
        PROVE  out'[k] = In(k)
    <3>1. CASE k <= Behind
      BY <1>3, <1>7, <1>11, <2>1, <3>1
    <3>2. CASE ~(k <= Behind)
      <4>1. k - Behind \in 1 .. count /\ Behind + (k - Behind) = k
        BY <1>3, <1>7, <3>2
      <4>2. out'[Behind + (k - Behind)] = b[k - Behind] /\ b[k - Behind] = In(Behind + (k - Behind))
        BY <1>11, <2>2, <4>1
      <4> QED
        BY <4>1, <4>2
    <3> QED
      BY <3>1, <3>2
  <2> QED
    <3>1. ASSUME NEW k \in 1 .. Behind + count
          PROVE  SampleOf("in", k)' = In(k)
      BY <1>2, <1>9, <1>b DEF SampleOf, In
    <3> QED
      BY <1>11, <2>3, <3>1 DEF SamplesInPlace
<1> QED
  BY <1>12, <1>13, <1>14, <1>15, <1>16, <1>17, <1>18, <1>19, <1>c DEF DInv

\* Every step of a driver keeps the invariant.
LEMMA NextDInv == DInv /\ [Next]_vars => DInv'
<1> SUFFICES ASSUME DInv, [Next]_vars
             PROVE  DInv'
  OBVIOUS
<1>1. CASE Open \/ AgcFails \/ ReadsBehindBuffer \/ ProcessUndefined
  BY <1>1, PlainSteps
<1>2. CASE ReadHeaders
  BY <1>2, ReadHeadersStep
<1>3. CASE CheckFormat
  BY <1>3, CheckFormatStep
<1>4. CASE Start
  BY <1>4, StartStep
<1>5. CASE Iterate
  BY <1>5, IterateStep
<1>6. CASE Close
  BY <1>6, CloseStep
<1>7. CASE UNCHANGED vars
  BY <1>7, StutterStep
<1> QED
  BY <1>1, <1>2, <1>3, <1>4, <1>5, <1>6, <1>7 DEF Next

\* The invariant holds of every program and all input files.
THEOREM DriverInvariance == Spec => []DInv
BY InitDInv, NextDInv, PTL DEF Spec

\* Every program writes sample k of its input as sample k of its result; only the
\* last frame can hold anything else, and then exactly what fread left of the
\* frame before.
THEOREM DriversKeepPlaces == Spec => []SamplesInPlace
<1>1. DInv => SamplesInPlace
  BY DEF DInv
<1> QED
  BY <1>1, DriverInvariance, PTL

\* In every iteration the echo cancellers are given the same samples of the far end
\* and of the near end, for every pair of files and any number of frames.
THEOREM DriversKeepEndsAligned == Spec => []EndsAligned
<1>1. DInv => EndsAligned
  BY DEF DInv
<1> QED
  BY <1>1, DriverInvariance, PTL

\* c whole frames of n samples, and no other, fit into a samples.
LEMMA WholeFrames ==
  ASSUME NEW a \in Nat, NEW n \in Nat, n > 0, NEW c \in Nat, c > 0, (c - 1) * n <= a
  PROVE  /\ a \div n + 1 \in Nat /\ c <= a \div n + 1
         /\ a < ((c - 1) + 1) * n => a \div n + 1 = c
<1> DEFINE q == a \div n
           d == c - 1
<1>1. q \in Nat /\ d \in Nat
  OBVIOUS
<1>2. q * n <= a /\ a < q * n + n
  BY Z3
<1> HIDE DEF q
<1>3. d <= q
  <2>1. SUFFICES ASSUME d > q
                 PROVE  FALSE
    BY <1>1
  <2>2. PICK e \in Nat : d = q + 1 + e
    <3>1. d - q - 1 \in Nat /\ d = q + 1 + (d - q - 1)
      BY <1>1, <2>1
    <3> QED
      BY <3>1
  <2>3. d * n = q * n + n + e * n /\ e * n \in Nat /\ q * n \in Nat
    <3> HIDE DEF d
    <3> QED
      BY <1>1, <2>2, Z3
  <2> QED
    BY <1>2, <2>3
<1>4. a < (d + 1) * n => q <= d
  <2> SUFFICES ASSUME a < (d + 1) * n, q > d
               PROVE  FALSE
    BY <1>1
  <2>1. PICK e \in Nat : q = d + 1 + e
    <3>1. q - d - 1 \in Nat /\ q = d + 1 + (q - d - 1)
      BY <1>1
    <3> QED
      BY <3>1
  <2> HIDE DEF d
  <2>2. q * n = (d + 1) * n + e * n /\ e * n \in Nat /\ (d + 1) * n \in Nat
    BY <1>1, <2>1, Z3
  <2> QED
    BY <1>2, <2>2
<1> QED
  BY <1>1, <1>3, <1>4 DEF q

\* The frames of the file that ends first, and the one in which it ends.
LEMMA FramesRead ==
  ASSUME DInv, ret = "ok"
  PROVE  Min({Available(s) \div length + 1 : s \in Sources}) = frm_cnt
<1> DEFINE S == {Available(s) \div length + 1 : s \in Sources}
<1>1. length \in Nat /\ frm_cnt \in Nat /\ ~Reading /\ Sources \subseteq Streams
  BY SourcesOfDriver DEF DInv, Types, Ended
<1>2. PICK t \in Sources : eof[t]
  BY <1>1 DEF Reading
<1>3. \A s \in Sources : Position(s) /\ Available(s) \in Nat
  BY <1>1, AvailableNat DEF DInv, Positions, Looping
<1>4. /\ frm_cnt * length \in Nat
      /\ frm_cnt > 0 => (frm_cnt - 1) * length = frm_cnt * length - length
                         /\ frm_cnt * length >= length
  BY <1>1, FramesBefore
<1>5. frm_cnt > 0 /\ length > 0
  <2>1. /\ frm_cnt > 0 /\ (frm_cnt - 1) * length <= Available(t)
        /\ Available(t) < frm_cnt * length
    BY <1>2, <1>3 DEF Position
  <2> QED
    BY <1>1, <1>3, <1>4, <2>1
<1>6. ASSUME NEW s \in Sources
      PROVE  /\ Available(s) \div length + 1 \in Nat
             /\ frm_cnt <= Available(s) \div length + 1
             /\ eof[s] => Available(s) \div length + 1 = frm_cnt
  <2>1. (frm_cnt - 1) * length <= Available(s)
    BY <1>1, <1>3, <1>4, <1>5 DEF Position
  <2>2. eof[s] => Available(s) < ((frm_cnt - 1) + 1) * length
    BY <1>1, <1>3, <1>4, <1>5 DEF Position
  <2> QED
    BY <1>1, <1>3, <1>5, <2>1, <2>2, WholeFrames
<1>7. \A x \in S : x \in Nat /\ frm_cnt <= x
  BY <1>6
<1>8. frm_cnt \in S
  BY <1>2, <1>6
<1> HIDE DEF S
<1>9. Min(S) \in S /\ Min(S) <= frm_cnt
  BY <1>7, <1>8, MinOfNats
<1>10. Min(S) = frm_cnt
  BY <1>1, <1>7, <1>9
<1> QED
  BY <1>10 DEF S

\* A program that ends normally has written one frame more than fits into the
\* shorter of its files, and test_apm_ns every sample once.
THEOREM DriversKeepLength == Spec => []ResultLength
<1>1. DInv => ResultLength
  <2> SUFFICES ASSUME DInv, ret = "ok"
               PROVE  Len(out) = IF driver = TestApmNs THEN Available("in")
                                 ELSE length * Min({Available(s) \div length + 1 : s \in Sources})
    BY DEF ResultLength
  <2>1. length * frm_cnt = frm_cnt * length
    BY DEF DInv, Types
  <2>2. driver = TestApmNs => eof["in"]
    BY SourcesOfDriver DEF DInv, Types, Ended, Reading
  <2> QED
    BY <2>1, <2>2, FramesRead DEF DInv, Progress, Looping
<1> QED
  BY <1>1, DriverInvariance, PTL

\* The loop makes no more iterations than the frames of its shortest file and one
\* in which that file ends; with empty frames it never sees the end of a file.
FramesInFile ==
  pc = "loop" =>
    IF length > 0 THEN \A s \in Sources : frm_cnt <= Available(s) \div length + 1
                  ELSE Reading

\* The number of iterations is bounded by the file, whatever MaxFrames is, so that
\* the loop ends for every file; below 100 Hz it ends for none.
THEOREM LoopsStayInFile == Spec => []FramesInFile
<1>1. DInv => FramesInFile
  <2> SUFFICES ASSUME DInv, pc = "loop"
               PROVE  IF length > 0
                        THEN \A s \in Sources : frm_cnt <= Available(s) \div length + 1
                        ELSE Reading
    BY DEF FramesInFile
  <2>1. length \in Nat /\ frm_cnt \in Nat /\ Sources \subseteq Streams
    BY SourcesOfDriver DEF DInv, Types
  <2>2. /\ frm_cnt * length \in Nat
        /\ frm_cnt > 0 => (frm_cnt - 1) * length = frm_cnt * length - length
                           /\ frm_cnt * length >= length
    BY <2>1, FramesBefore
  <2>3. ASSUME NEW s \in Sources
        PROVE  /\ length > 0 => frm_cnt <= Available(s) \div length + 1
               /\ length = 0 => ~eof[s]
    <3>1. Position(s) /\ Available(s) \in Nat
      BY <2>1, AvailableNat DEF DInv, Positions, Looping
    <3>2. CASE frm_cnt = 0
      BY <2>1, <3>1, <3>2 DEF Position
    <3>3. CASE frm_cnt > 0
      <4>1. (frm_cnt - 1) * length <= Available(s)
        BY <2>1, <2>2, <3>1, <3>3 DEF Position
      <4>2. length > 0 => frm_cnt <= Available(s) \div length + 1
        BY <2>1, <3>1, <3>3, <4>1, WholeFrames
      <4>3. ASSUME length = 0
            PROVE  ~eof[s]
        <5>1. frm_cnt * length = 0
          BY <2>1, <4>3
        <5> QED
          BY <3>1, <5>1 DEF Position
      <4> QED
        BY <4>2, <4>3
    <3> QED
      BY <2>1, <3>2, <3>3
  <2> QED
    BY <2>1, <2>3 DEF Reading
<1> QED
  BY <1>1, DriverInvariance, PTL

\* read_header, which only looks for four letters, finds the format and the data
\* chunk of every wav file that has no stray ID in front of them.
THEOREM HeadersAreTheChunks == Spec => []HeaderIsTheChunks
<1>1. DInv => HeaderIsTheChunks
  <2>1. ASSUME DInv, NEW s \in Streams
        PROVE  file[s] \in WavFile
    BY <2>1 DEF DInv, Types
  <2>2. ASSUME NEW f \in WavFile, NEW fmt \in f.marks, NEW data \in f.marks
        PROVE  /\ IsWave(f, fmt, data) /\ WholeFormat(fmt)
               /\ \A m \in Lookalikes(f) : m.id = "fmt " => m.at > fmt.at
               => /\ read_header(f).ok /\ read_header(f).format = fmt.format
                  /\ \/ read_header(f).start = data.at + DataSize
                     \/ \E m \in Lookalikes(f) :
                          /\ m.id = "data" /\ m.at < data.at
                          /\ read_header(f).start = m.at + DataSize
    BY WaveAccepted, Zenon DEF NoStrayFormat, StartsAt, FmtId, DataId
  <2> QED
    BY <2>1, <2>2, AcceptedIsWave, Zenon DEF HeaderIsTheChunks, FmtId, DataId
<1> QED
  BY <1>1, DriverInvariance, PTL
-----------------------------------------------------------------------------
(***************************************************************************)
(* The file that is written.                                               *)
(***************************************************************************)
RiffMark(h) == [at |-> 0, id |-> "RIFF", size |-> h.riffSize, format |-> NoFormat]
FormatMark(h) == [at |-> RiffSize, id |-> "fmt ", size |-> 16, format |-> h.format]
DataMark(h) ==
  [at |-> RiffSize + FormatSize, id |-> "data", size |-> h.dataSize, format |-> NoFormat]

\* The chunks write_header writes.
LEMMA WrittenMarks ==
  ASSUME NEW h, NEW bytes
  PROVE  LET f == write_header(h, bytes) IN
         /\ f.marks = {RiffMark(h), FormatMark(h), DataMark(h)}
         /\ f.type = "WAVE"
         /\ f.len = RiffSize + FormatSize + DataSize + bytes
<1> QED
  BY Zenon DEF write_header, RiffMark, FormatMark, DataMark, WrittenSize

\* Where they are and what they are called.
LEMMA MarkFields ==
  ASSUME NEW h
  PROVE  /\ RiffMark(h).at = 0 /\ RiffMark(h).id = "RIFF"
         /\ FormatMark(h).at = 12 /\ FormatMark(h).id = "fmt " /\ FormatMark(h).size = 16
         /\ FormatMark(h).format = h.format
         /\ DataMark(h).at = 36 /\ DataMark(h).id = "data"
         /\ RiffMark(h).size = h.riffSize /\ DataMark(h).size = h.dataSize
BY DEF RiffMark, FormatMark, DataMark, RiffSize, FormatSize

\* Every mark of a written file begins a chunk: the format chunk is 24 bytes long
\* because write_header sets its size to 16, whatever was read.
LEMMA WrittenChain ==
  ASSUME NEW h, NEW bytes
  PROVE  Lookalikes(write_header(h, bytes)) = {}
<1> DEFINE f == write_header(h, bytes)
<1>1. f.marks = {RiffMark(h), FormatMark(h), DataMark(h)}
  BY WrittenMarks
<1> HIDE DEF f
<1>2. /\ RiffMark(h).at = 0 /\ RiffMark(h).id = "RIFF"
      /\ FormatMark(h).at = 12 /\ FormatMark(h).id = "fmt " /\ FormatMark(h).size = 16
      /\ DataMark(h).at = 36 /\ DataMark(h).id = "data"
  BY MarkFields
<1>3. RiffMark(h).at = 0 /\ FormatMark(h).at = 12 /\ FormatMark(h).size = 16
      /\ DataMark(h).at = 36
  BY <1>2, Zenon
<1>4. ASSUME NEW S, Linked(f, S)
      PROVE  FormatMark(h) \in S /\ DataMark(h) \in S
  <2>1. RiffHeader(f, RiffMark(h))
    <3>1. \A k \in f.marks : k.id = "RIFF" => k = RiffMark(h)
      BY <1>1, <1>2
    <3>2. RiffMark(h).at <= RiffMark(h).at
      BY <1>3
    <3> QED
      BY <1>2, <3>1, <3>2, Zenon DEF RiffHeader
  <2>2. FormatMark(h).at = RiffMark(h).at + RiffSize
    BY <1>3 DEF RiffSize
  <2>3. Begins(f, S, FormatMark(h))
    BY <1>1, <2>1, <2>2 DEF Begins
  <2>4. FormatMark(h) \in S
    BY <1>1, <1>4, <2>3 DEF Linked
  <2>5. DataMark(h).at = FormatMark(h).at + ChunkLen(FormatMark(h))
    <3>1. ChunkLen(FormatMark(h)) = 8 + 16 + (16 % 2)
      BY <1>3 DEF ChunkLen
    <3> QED
      BY <1>3, <3>1
  <2>6. Begins(f, S, DataMark(h))
    BY <2>4, <2>5 DEF Begins
  <2> QED
    BY <1>1, <1>4, <2>4, <2>6 DEF Linked
<1>5. FormatMark(h) \in Chunks(f) /\ DataMark(h) \in Chunks(f)
  BY <1>1, <1>4 DEF Chunks
<1>6. Lookalikes(f) = {}
  BY <1>1, <1>2, <1>5 DEF Lookalikes
<1> QED
  BY <1>6 DEF f

\* The only place of an ID.
LEMMA SearchOnly ==
  ASSUME NEW f, NEW from \in Int, NEW size \in Int, NEW mark \in f.marks,
         \A m \in f.marks : m.id = mark.id => m = mark,
         mark.at \in Nat, from <= mark.at, mark.at + 4 <= from + size
  PROVE  search_ID(f, mark.id, from, size) = mark.at
<1> DEFINE id == mark.id
           at == mark.at
           inside == {k \in f.marks : k.id = id /\ from <= k.at /\ k.at + ID_LEN <= from + size}
           hits == {m.at : m \in inside}
<1>1. inside = {mark}
  BY DEF ID_LEN
<1>2. hits = {at}
  BY <1>1
<1>3. Min({at}) = at
  <2>1. {at} \subseteq Nat /\ {at} # {}
    OBVIOUS
  <2> QED
    BY <2>1, MinOfNats
<1>4. search_ID(f, id, from, size) = IF hits = {} THEN NotFound ELSE Min(hits)
  BY DEF search_ID
<1> HIDE DEF hits
<1> QED
  BY <1>2, <1>3, <1>4

\* The marks of a file that write_header has begun.
ThreeChunks(f, h) == f.marks = {RiffMark(h), FormatMark(h), DataMark(h)}

\* search_ID finds each of them where write_header put it.
LEMMA WrittenSearch ==
  ASSUME NEW f, NEW h, ThreeChunks(f, h),
         NEW n \in Nat, n >= 44
  PROVE  /\ search_ID(f, "RIFF", 0, n) = 0
         /\ search_ID(f, "fmt ", 12, n - 12) = 12
         /\ search_ID(f, "data", 36, n - 36) = 36
         /\ MarkAt(f, 12) = FormatMark(h)
         /\ MarkAt(f, 0) = RiffMark(h) /\ MarkAt(f, 36) = DataMark(h)
<1>1. /\ RiffMark(h).id = "RIFF" /\ FormatMark(h).id = "fmt " /\ DataMark(h).id = "data"
      /\ RiffMark(h) \in f.marks /\ FormatMark(h) \in f.marks /\ DataMark(h) \in f.marks
  BY MarkFields DEF ThreeChunks
<1>2. /\ \A m \in f.marks : m.id = "RIFF" => m = RiffMark(h)
      /\ \A m \in f.marks : m.id = "fmt " => m = FormatMark(h)
      /\ \A m \in f.marks : m.id = "data" => m = DataMark(h)
  BY <1>1 DEF ThreeChunks
<1>3. RiffMark(h).at = 0 /\ FormatMark(h).at = 12 /\ DataMark(h).at = 36
  BY MarkFields
<1>4. /\ n \in Int /\ n - 12 \in Int /\ n - 36 \in Int
      /\ 0 + 4 <= 0 + n /\ 12 + 4 <= 12 + (n - 12) /\ 36 + 4 <= 36 + (n - 36)
  OBVIOUS
<1>6. search_ID(f, "RIFF", 0, n) = 0
  <2> DEFINE mark == RiffMark(h)
             size == n
  <2>1. /\ mark \in f.marks /\ mark.id = "RIFF"
        /\ \A m \in f.marks : m.id = mark.id => m = mark
    BY <1>1, <1>2, Zenon
  <2>2. mark.at = 0 /\ size \in Int /\ 0 + 4 <= 0 + size
    BY <1>3, <1>4, Zenon
  <2> HIDE DEF mark, size
  <2>3. /\ mark.at \in Nat /\ 0 <= mark.at /\ mark.at + 4 <= 0 + size
        /\ 0 \in Int
    BY <2>2
  <2>4. search_ID(f, mark.id, 0, size) = mark.at
    BY <2>1, <2>2, <2>3, SearchOnly
  <2> QED
    BY <2>1, <2>2, <2>4 DEF size
<1>7. search_ID(f, "fmt ", 12, n - 12) = 12
  <2> DEFINE mark == FormatMark(h)
             size == n - 12
  <2>1. /\ mark \in f.marks /\ mark.id = "fmt "
        /\ \A m \in f.marks : m.id = mark.id => m = mark
    BY <1>1, <1>2, Zenon
  <2>2. mark.at = 12 /\ size \in Int /\ 12 + 4 <= 12 + size
    BY <1>3, <1>4, Zenon
  <2> HIDE DEF mark, size
  <2>3. /\ mark.at \in Nat /\ 12 <= mark.at /\ mark.at + 4 <= 12 + size
        /\ 12 \in Int
    BY <2>2
  <2>4. search_ID(f, mark.id, 12, size) = mark.at
    BY <2>1, <2>2, <2>3, SearchOnly
  <2> QED
    BY <2>1, <2>2, <2>4 DEF size
<1>8. search_ID(f, "data", 36, n - 36) = 36
  <2> DEFINE mark == DataMark(h)
             size == n - 36
  <2>1. /\ mark \in f.marks /\ mark.id = "data"
        /\ \A m \in f.marks : m.id = mark.id => m = mark
    BY <1>1, <1>2, Zenon
  <2>2. mark.at = 36 /\ size \in Int /\ 36 + 4 <= 36 + size
    BY <1>3, <1>4, Zenon
  <2> HIDE DEF mark, size
  <2>3. /\ mark.at \in Nat /\ 36 <= mark.at /\ mark.at + 4 <= 36 + size
        /\ 36 \in Int
    BY <2>2
  <2>4. search_ID(f, mark.id, 36, size) = mark.at
    BY <2>1, <2>2, <2>3, SearchOnly
  <2> QED
    BY <2>1, <2>2, <2>4 DEF size
<1>9. MarkAt(f, 12) = FormatMark(h)
  <2>1. \A m \in f.marks : m.at = 12 => m = FormatMark(h)
    BY <1>3 DEF ThreeChunks
  <2>2. MarkAt(f, 12) \in f.marks /\ MarkAt(f, 12).at = 12
    BY <1>1, <1>3, Zenon DEF MarkAt
  <2> QED
    BY <2>1, <2>2, Zenon
<1>10. MarkAt(f, 0) = RiffMark(h)
  <2>1. \A m \in f.marks : m.at = 0 => m = RiffMark(h)
    BY <1>3 DEF ThreeChunks
  <2>2. MarkAt(f, 0) \in f.marks /\ MarkAt(f, 0).at = 0
    BY <1>1, <1>3, Zenon DEF MarkAt
  <2> QED
    BY <2>1, <2>2, Zenon
<1>11. MarkAt(f, 36) = DataMark(h)
  <2>1. \A m \in f.marks : m.at = 36 => m = DataMark(h)
    BY <1>3 DEF ThreeChunks
  <2>2. MarkAt(f, 36) \in f.marks /\ MarkAt(f, 36).at = 36
    BY <1>1, <1>3, Zenon DEF MarkAt
  <2> QED
    BY <2>1, <2>2, Zenon
<1> QED
  BY <1>6, <1>7, <1>8, <1>9, <1>10, <1>11, Zenon

\* read_header finds the three marks of a written file where write_header put
\* them.
LEMMA WrittenIsRead ==
  ASSUME NEW h, NEW bytes \in Nat
  PROVE  LET f == write_header(h, bytes) IN
         /\ read_header(f).ok
         /\ read_header(f).start + bytes = f.len
         /\ read_header(f).format = h.format
         /\ read_header(f).riffSize = h.riffSize /\ read_header(f).dataSize = h.dataSize
<1> DEFINE f == write_header(h, bytes)
           n == Min({BUFFER_SIZE, f.len})
<1>1. /\ f.marks = {RiffMark(h), FormatMark(h), DataMark(h)} /\ f.type = "WAVE"
      /\ f.len = 44 + bytes
  BY WrittenMarks DEF RiffSize, FormatSize, DataSize
<1> HIDE DEF f
<1>2. n \in Nat /\ n >= 44
  BY <1>1, MinOfTwo DEF BUFFER_SIZE
<1> HIDE DEF n
<1>3. /\ search_ID(f, "RIFF", 0, n) = 0 /\ search_ID(f, "fmt ", 12, n - 12) = 12
      /\ search_ID(f, "data", 36, n - 36) = 36 /\ MarkAt(f, 12) = FormatMark(h)
      /\ MarkAt(f, 0) = RiffMark(h) /\ MarkAt(f, 36) = DataMark(h)
  <2>1. ThreeChunks(f, h)
    BY <1>1 DEF ThreeChunks
  <2> QED
    BY <1>2, <2>1, WrittenSearch, Zenon
<1>4. HeaderPlaces(f, n, 0, 12, 36)
  <2>1. 0 + RiffSize = 12 /\ AfterFormat(12) = 36
    BY DEF RiffSize, AfterFormat, FormatSize
  <2>2. /\ 0 \in Nat /\ 12 \in Nat /\ 36 \in Nat
        /\ n - 0 >= RiffSize /\ n - 12 >= FormatSize /\ n - 36 >= DataSize
    BY <1>2 DEF RiffSize, FormatSize, DataSize
  <2> QED
    BY <1>1, <1>3, <2>1, <2>2, Zenon DEF HeaderPlaces, RiffId, FmtId, DataId
<1>5. /\ read_header(f).ok /\ read_header(f).format = MarkAt(f, 12).format
      /\ read_header(f).start = 36 + DataSize
      /\ read_header(f).riffSize = MarkAt(f, 0).size
      /\ read_header(f).dataSize = MarkAt(f, 36).size
  <2> DEFINE riff == 0
             fmt == 12
             data == 36
  <2>1. HeaderPlaces(f, n, riff, fmt, data) /\ n \in Nat /\ n = Min({BUFFER_SIZE, f.len})
    BY <1>2, <1>4, Zenon DEF n
  <2> HIDE DEF riff, fmt, data
  <2>2. /\ read_header(f).ok /\ read_header(f).format = MarkAt(f, fmt).format
        /\ read_header(f).start = data + DataSize
        /\ read_header(f).riffSize = MarkAt(f, riff).size
        /\ read_header(f).dataSize = MarkAt(f, data).size
    BY <2>1, HeaderOfPlaces, Zenon
  <2> QED
    BY <2>2, Zenon DEF riff, fmt, data
<1>6. /\ read_header(f).format = h.format
      /\ read_header(f).riffSize = h.riffSize /\ read_header(f).dataSize = h.dataSize
  <2>1. /\ FormatMark(h).format = h.format
        /\ RiffMark(h).size = h.riffSize /\ DataMark(h).size = h.dataSize
    BY MarkFields
  <2> QED
    BY <1>3, <1>5, <2>1, Zenon
<1>7. read_header(f).start + bytes = f.len
  <2>1. read_header(f).start = 36 + DataSize /\ f.len = 44 + bytes
    BY <1>1, <1>5, Zenon
  <2> QED
    BY <2>1 DEF DataSize
<1>8. read_header(f).ok
  BY <1>5, Zenon
<1> QED
  BY <1>6, <1>7, <1>8 DEF f

\* Whatever header was written, and however many samples followed it, the result
\* is a wav file of the format of the input, with the rate asked for in
\* test_resampler; the RIFF and data sizes in it are those of the input.
THEOREM ResultsAreWavFiles == Spec => []ResultIsWav
<1>1. DInv => ResultIsWav
  <2> SUFFICES ASSUME DInv, written.ok
               PROVE  LET f == write_header(written, 2 * Len(out))
                          h == read_header(f)
                          given == read_header(file["in"])
                      IN /\ Lookalikes(f) = {}
                         /\ h.ok /\ h.start + 2 * Len(out) = f.len
                         /\ h.riffSize = given.riffSize /\ h.dataSize = given.dataSize
                         /\ h.format = IF driver = TestResampler
                                         THEN [given.format EXCEPT !.rate = outRate]
                                         ELSE given.format
    BY DEF ResultIsWav
  <2> DEFINE f == write_header(written, 2 * Len(out))
             given == read_header(file["in"])
             format == IF driver = TestResampler THEN [given.format EXCEPT !.rate = outRate]
                                                 ELSE given.format
  <2>1. 2 * Len(out) \in Nat
    BY DEF DInv, Types
  <2>2. Lookalikes(f) = {}
    BY WrittenChain
  <2>3. /\ read_header(f).ok /\ read_header(f).start + 2 * Len(out) = f.len
        /\ read_header(f).format = written.format
        /\ read_header(f).riffSize = written.riffSize /\ read_header(f).dataSize = written.dataSize
    BY <2>1, WrittenIsRead
  <2>4. written = Retagged(given)
    <3>1. ~NoHeader.ok
      BY Zenon DEF NoHeader
    <3> QED
      BY <3>1 DEF DInv, WrittenHeader
  <2>5. /\ written.format = format
        /\ written.riffSize = given.riffSize /\ written.dataSize = given.dataSize
    <3>1. given \in WavHeader /\ outRate \in Nat
      BY HeaderInFile DEF DInv, Types, Streams
    <3> HIDE DEF given
    <3> QED
      BY <2>4, <3>1, RetaggedHeader
  <2> HIDE DEF f, given, format
  <2>6. /\ read_header(f).format = format
        /\ read_header(f).riffSize = given.riffSize /\ read_header(f).dataSize = given.dataSize
    BY <2>3, <2>5, Zenon
  <2> QED
    BY <2>2, <2>3, <2>6, Zenon DEF f, given, format
<1> QED
  BY <1>1, DriverInvariance, PTL
=============================================================================

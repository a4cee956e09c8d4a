--------------------------- MODULE RingBufProofs ---------------------------
(***************************************************************************)
(* Proofs about RingBuf, for every buffer size, every set of threads and   *)
(* every set of push and pop sizes.                                        *)
(***************************************************************************)
EXTENDS RingBuf, TLAPS

\* How push moves the counters: a successful push of n bytes uses n more.
LEMMA PushCounts ==
  ASSUME TypeOK, NEW p \in Producers, NEW n \in PushSizes, PushOk(p, n)
  PROVE  /\ buf_tail' \in 0 .. buf_size - 1
         /\ Used' = Used + n
         /\ Free' = Free - n
         /\ buf_tail' # buf_head
BY RingBufAssumption
   DEF TypeOK, PushOk, Fits, TailAfterPush, TailFree, Used, Free

\* How pop moves the counters: the head gains n bytes on the tail, or n - 1
\* when the pop ends exactly at the end of the buffer.
LEMMA PopCounts ==
  ASSUME TypeOK, NEW c \in Consumers, NEW n \in PopSizes, PopOk(c, n)
  PROVE  /\ buf_head' \in 0 .. buf_size - 1
         /\ Used' = Used - n \/ Used' = Used - n + 1
         /\ Free' = buf_size - Used'
         /\ Free' >= Free
         /\ buf_head' # buf_tail
BY RingBufAssumption
   DEF TypeOK, PopOk, Available, HeadAfterPop, HeadUsed, Used, Free

\* Every step preserves the type invariant.
LEMMA TypeStep == TypeOK /\ [Next]_vars => TypeOK'
<1> USE RingBufAssumption
<1> SUFFICES ASSUME TypeOK, [Next]_vars
             PROVE  TypeOK'
  OBVIOUS
<1>1. ASSUME NEW size \in Sizes, CreateOk(size)
      PROVE  TypeOK'
  BY <1>1 DEF CreateOk, TypeOK, Offsets
<1>2. ASSUME NEW size \in Sizes, CreateFails(size)
      PROVE  TypeOK'
  BY <1>2 DEF CreateFails, TypeOK, Offsets
<1>3. ASSUME NEW p \in Producers, NEW n \in PushSizes, PushOk(p, n)
      PROVE  TypeOK'
  <2>1. buf_tail' \in 0 .. buf_size - 1
    BY <1>3, PushCounts
  <2>2. buf' \in [Offsets -> Nat]
    BY <1>3 DEF PushOk, Fits, AfterPush, TailFree, TypeOK, Offsets, Free
  <2> QED
    BY <1>3, <2>1, <2>2 DEF PushOk, Fits, TypeOK, Offsets
<1>4. ASSUME NEW p \in Producers, NEW data \in Data, NEW n \in PushSizes,
             PushRefused(p, data, n)
      PROVE  TypeOK'
  BY <1>4 DEF PushRefused, ringVars, TypeOK, Offsets
<1>5. ASSUME NEW c \in Consumers, NEW n \in PopSizes, PopOk(c, n)
      PROVE  TypeOK'
  <2>1. buf_head' \in 0 .. buf_size - 1
    BY <1>5, PopCounts
  <2> QED
    BY <1>5, <2>1 DEF PopOk, TypeOK, Offsets
<1>6. ASSUME NEW c \in Consumers, NEW data \in Data, NEW n \in PopSizes,
             PopRefused(c, data, n)
      PROVE  TypeOK'
  BY <1>6 DEF PopRefused, ringVars, TypeOK, Offsets
<1>7. CASE ringbuf_get_size
  BY <1>7 DEF ringbuf_get_size, ringVars, TypeOK, Offsets
<1>8. ASSUME NEW c \in Consumers, ringbuf_get_used_size(c)
      PROVE  TypeOK'
  BY <1>8 DEF ringbuf_get_used_size, ringVars, TypeOK, Offsets, Used
<1>9. ASSUME NEW p \in Producers, ringbuf_get_free_size(p)
      PROVE  TypeOK'
  BY <1>9 DEF ringbuf_get_free_size, ringVars, TypeOK, Offsets, Free
<1>10. CASE ringbuf_destroy
  BY <1>10 DEF ringbuf_destroy, TypeOK, Offsets
<1>11. CASE UNCHANGED vars
  BY <1>11 DEF vars, TypeOK, Offsets
<1> QED
  BY <1>1, <1>2, <1>3, <1>4, <1>5, <1>6, <1>7, <1>8, <1>9, <1>10, <1>11
     DEF Next

\* The pointers of ring_buf.c stay inside the block and the content of the
\* block stays a function on its offsets.
THEOREM TypeCorrect == Spec => []TypeOK
<1>1. Init => TypeOK
  BY RingBufAssumption DEF Init, TypeOK, Offsets
<1> QED
  BY <1>1, TypeStep, PTL DEF Spec

\* A step that leaves the buffer alone keeps what is said of it.
LEMMA Unmoved ==
  ASSUME UNCHANGED ringVars
  PROVE  /\ UnreadIntact => UnreadIntact'
         /\ EqualPointersMeanUnused => EqualPointersMeanUnused'
         /\ Used' = Used
         /\ Free' = Free
BY DEF ringVars, UnreadIntact, EqualPointersMeanUnused, Used, Free, Offsets,
       InWindow, StreamAt

-----------------------------------------------------------------------------
\* A push writes only free offsets, and the bytes it writes carry on the
\* stream where the used part ends, also when the copy wraps.
LEMMA PushKeepsUnread ==
  ASSUME TypeOK, UnreadIntact,
         NEW p \in Producers, NEW n \in PushSizes, PushOk(p, n)
  PROVE  UnreadIntact'
<1> USE RingBufAssumption
<1>1. Used' <= pushed'
  <2>1. Used' = Used + n
    BY PushCounts
  <2>2. Used <= pushed /\ Used \in Int /\ n \in Int /\ n > 0
    BY DEF UnreadIntact, PushOk, Fits, TypeOK, Used
  <2> QED
    BY <2>1, <2>2 DEF PushOk, TypeOK
<1>2. ASSUME NEW k \in Offsets, InWindow(k)'
      PROVE  buf'[k] = StreamAt(k)'
  <2>1. buf'[k] = IF k \in buf_tail .. buf_tail + n - 1
                    THEN pushed + 1 + (k - buf_tail)
                  ELSE IF k < n - TailFree THEN pushed + 1 + TailFree + k
                  ELSE buf[k]
    BY DEF PushOk, Fits, AfterPush
  <2>2. CASE k \in buf_tail .. buf_tail + n - 1
    BY <2>1, <2>2 DEF PushOk, Fits, TailAfterPush, TailFree, StreamAt, Free, TypeOK, Offsets
  <2>3. CASE k \notin buf_tail .. buf_tail + n - 1 /\ k < n - TailFree
    BY <2>1, <2>3 DEF PushOk, Fits, TailAfterPush, TailFree, StreamAt, Free, TypeOK, Offsets
  <2>4. CASE k \notin buf_tail .. buf_tail + n - 1 /\ ~(k < n - TailFree)
    <3>1. InWindow(k)
      BY <1>2, <2>4 DEF PushOk, Fits, TailAfterPush, TailFree, InWindow, Free, TypeOK, Offsets
    <3>2. buf'[k] = StreamAt(k)
      BY <2>1, <2>4, <3>1 DEF UnreadIntact, PushOk
    <3>3. StreamAt(k)' = StreamAt(k)
      BY <1>2, <2>4, <3>1
         DEF PushOk, Fits, TailAfterPush, TailFree, StreamAt, InWindow, Free, TypeOK, Offsets
    <3> QED
      BY <3>2, <3>3
  <2> QED
    BY <2>2, <2>3, <2>4
<1> QED
  BY <1>1, <1>2 DEF UnreadIntact, PushOk, Offsets

\* A pop only shrinks the used part.
LEMMA PopKeepsUnread ==
  ASSUME TypeOK, UnreadIntact,
         NEW c \in Consumers, NEW n \in PopSizes, PopOk(c, n)
  PROVE  UnreadIntact'
<1> USE RingBufAssumption
<1>1. Used' <= pushed'
  <2>1. Used' = Used - n \/ Used' = Used - n + 1
    BY PopCounts
  <2>2. Used <= pushed /\ Used \in Int /\ n \in Int /\ n > 0
    BY DEF UnreadIntact, PopOk, Available, TypeOK, Used
  <2> QED
    BY <2>1, <2>2 DEF PopOk, TypeOK
<1>2. ASSUME NEW k \in Offsets, InWindow(k)'
      PROVE  InWindow(k)
  BY <1>2 DEF PopOk, Available, HeadAfterPop, HeadUsed, InWindow, Used, TypeOK, Offsets
<1> QED
  BY <1>1, <1>2 DEF UnreadIntact, PopOk, Offsets, StreamAt

\* The conjunction of the invariants is inductive.
LEMMA Inductive == IndInv /\ [Next]_vars => IndInv'
<1> USE RingBufAssumption
<1> SUFFICES ASSUME IndInv, [Next]_vars
             PROVE  IndInv'
  OBVIOUS
<1> USE DEF IndInv
<1>0. TypeOK'
  BY TypeStep
<1>1. ASSUME NEW size \in Sizes, CreateOk(size)
      PROVE  IndInv'
  BY <1>0, <1>1 DEF CreateOk, TypeOK, UnreadIntact, EqualPointersMeanUnused,
       QueriesStayValid, InWindow, Used, Free
<1>2. ASSUME NEW size \in Sizes, CreateFails(size)
      PROVE  IndInv'
  BY <1>0, <1>2 DEF CreateFails, UnreadIntact, EqualPointersMeanUnused,
       QueriesStayValid
<1>3. ASSUME NEW p \in Producers, NEW n \in PushSizes, PushOk(p, n)
      PROVE  IndInv'
  <2>1. UnreadIntact'
    BY <1>3, PushKeepsUnread
  <2>2. EqualPointersMeanUnused'
    BY <1>3, PushCounts DEF EqualPointersMeanUnused, PushOk
  <2>3. QueriesStayValid'
    <3>1. ASSUME NEW q \in Producers, Producers = {q}
          PROVE  seenFree'[q] <= Free'
      BY <1>0, <1>3, <3>1 DEF PushOk, TypeOK, Free
    <3>2. ASSUME NEW c \in Consumers, Consumers = {c}
          PROVE  seenUsed'[c] <= Used'
      <4>1. Used' = Used + n
        BY <1>3, PushCounts
      <4>2. Used \in Int /\ n \in Int /\ n > 0
        BY <1>3 DEF PushOk, Fits, TypeOK, Used
      <4>3. seenUsed'[c] = seenUsed[c] /\ seenUsed[c] <= Used /\ seenUsed[c] \in Nat
        BY <1>3, <3>2 DEF QueriesStayValid, PushOk, TypeOK
      <4> QED
        BY <4>1, <4>2, <4>3
    <3> QED
      BY <3>1, <3>2 DEF QueriesStayValid
  <2> QED
    BY <1>0, <2>1, <2>2, <2>3
<1>4. ASSUME NEW p \in Producers, NEW data \in Data, NEW n \in PushSizes,
             PushRefused(p, data, n)
      PROVE  IndInv'
  BY <1>0, <1>4, Unmoved DEF PushRefused, QueriesStayValid, ringVars
<1>5. ASSUME NEW c \in Consumers, NEW n \in PopSizes, PopOk(c, n)
      PROVE  IndInv'
  <2>1. UnreadIntact'
    BY <1>5, PopKeepsUnread
  <2>2. EqualPointersMeanUnused'
    BY <1>5, PopCounts DEF EqualPointersMeanUnused, PopOk
  <2>3. QueriesStayValid'
    <3>1. ASSUME NEW p \in Producers, Producers = {p}
          PROVE  seenFree'[p] <= Free'
      <4>1. Free' >= Free /\ Free' \in Int /\ Free \in Int
        <5>1. Free' >= Free
          BY <1>5, PopCounts
        <5>2. Free' \in Int /\ Free \in Int
          BY <1>0 DEF TypeOK, Free
        <5> QED
          BY <5>1, <5>2
      <4>2. seenFree[p] <= Free /\ seenFree'[p] = seenFree[p] /\ seenFree[p] \in Nat
        BY <1>5, <3>1 DEF QueriesStayValid, PopOk, TypeOK
      <4> QED
        BY <4>1, <4>2
    <3>2. ASSUME NEW d \in Consumers, Consumers = {d}
          PROVE  seenUsed'[d] <= Used'
      BY <1>0, <1>5, <3>2 DEF PopOk, TypeOK, Used
    <3> QED
      BY <3>1, <3>2 DEF QueriesStayValid
  <2> QED
    BY <1>0, <2>1, <2>2, <2>3
<1>6. ASSUME NEW c \in Consumers, NEW data \in Data, NEW n \in PopSizes,
             PopRefused(c, data, n)
      PROVE  IndInv'
  BY <1>0, <1>6, Unmoved DEF PopRefused, QueriesStayValid, ringVars
<1>7. CASE ringbuf_get_size
  BY <1>0, <1>7, Unmoved DEF ringbuf_get_size, QueriesStayValid, ringVars
<1>8. ASSUME NEW c \in Consumers, ringbuf_get_used_size(c)
      PROVE  IndInv'
  <2>1. QueriesStayValid'
    BY <1>8, Unmoved DEF ringbuf_get_used_size, ringVars, QueriesStayValid, TypeOK, Used
  <2> QED
    BY <1>0, <1>8, <2>1, Unmoved DEF ringbuf_get_used_size
<1>9. ASSUME NEW p \in Producers, ringbuf_get_free_size(p)
      PROVE  IndInv'
  <2>1. QueriesStayValid'
    BY <1>9, Unmoved DEF ringbuf_get_free_size, ringVars, QueriesStayValid, TypeOK, Free
  <2> QED
    BY <1>0, <1>9, <2>1, Unmoved DEF ringbuf_get_free_size
<1>10. CASE ringbuf_destroy
  BY <1>0, <1>10 DEF ringbuf_destroy, UnreadIntact, EqualPointersMeanUnused,
       QueriesStayValid
<1>11. CASE UNCHANGED vars
  BY <1>0, <1>11, Unmoved DEF vars, ringVars, QueriesStayValid
<1> QED
  BY <1>1, <1>2, <1>3, <1>4, <1>5, <1>6, <1>7, <1>8, <1>9, <1>10, <1>11
     DEF Next

\* Spec keeps the inductive invariant.
THEOREM Invariance == Spec => []IndInv
<1>1. Init => IndInv
  BY RingBufAssumption
     DEF Init, IndInv, TypeOK, Offsets, UnreadIntact, EqualPointersMeanUnused,
         QueriesStayValid
<1> QED
  BY <1>1, Inductive, PTL DEF Spec

\* No byte that pop has still to deliver is ever overwritten.
THEOREM UnreadStaysIntact == Spec => []UnreadIntact
<1>1. IndInv => UnreadIntact
  BY DEF IndInv
<1> QED
  BY <1>1, Invariance, PTL

\* Equal pointers never stand for a full buffer.
THEOREM NeverLooksEmptyWhenFull == Spec => []EqualPointersMeanUnused
<1>1. IndInv => EqualPointersMeanUnused
  BY DEF IndInv
<1> QED
  BY <1>1, Invariance, PTL

\* A single producer's get_free_size and a single consumer's get_used_size
\* are still lower bounds when they are used.
THEOREM QueriesNeverStale == Spec => []QueriesStayValid
<1>1. IndInv => QueriesStayValid
  BY DEF IndInv
<1> QED
  BY <1>1, Invariance, PTL
-----------------------------------------------------------------------------
\* The ring buffer implements the in-order, lossless stream of ByteStream:
\* push is Send, pop is Deliver, create is Open, everything else a stutter.
THEOREM ImplementsStream == Spec => StreamSpec
<1> USE RingBufAssumption
<1>1. Init => Stream!Init
  BY DEF Init, Stream!Init, NextByte, Used
<1>2. IndInv /\ [Next]_vars => [Stream!Next]_(Stream!vars)
  <2> SUFFICES ASSUME IndInv, [Next]_vars
               PROVE  [Stream!Next]_(Stream!vars)
    OBVIOUS
  <2>0. TypeOK
    BY DEF IndInv
  <2>1. ASSUME NEW size \in Sizes, CreateOk(size)
        PROVE  Stream!Open
    BY <2>1 DEF CreateOk, Stream!Open, NextByte, Used
  <2>2. ASSUME NEW p \in Producers, NEW n \in PushSizes, PushOk(p, n)
        PROVE  Stream!Send
    <3>1. Used' = Used + n /\ Used \in Int /\ pushed \in Int /\ n \in Int
      BY <2>0, <2>2, PushCounts DEF TypeOK, Used
    <3>2. NextByte' = NextByte
      BY <2>2, <3>1 DEF NextByte, PushOk
    <3>3. Free = buf_size - Used /\ buf_size \in Int
      BY <2>0 DEF Free, Used, TypeOK
    <3> QED
      BY <2>2, <3>1, <3>2, <3>3 DEF Stream!Send, PushOk, Fits, NextByte
  <2>3. ASSUME NEW c \in Consumers, NEW n \in PopSizes, PopOk(c, n)
        PROVE  Stream!Deliver
    <3>1. Used \in Int /\ pushed \in Int /\ n \in Int /\ n > 0 /\ n < Used
      BY <2>0, <2>3 DEF TypeOK, Used, PopOk, Available
    <3>2. n \in 1 .. pushed - NextByte
      BY <3>1 DEF NextByte
    <3>3. NextByte' \in {NextByte + n, NextByte + n - 1}
      <4>1. Used' = Used - n \/ Used' = Used - n + 1
        BY <2>0, <2>3, PopCounts
      <4>2. pushed' = pushed
        BY <2>3 DEF PopOk
      <4>3. NextByte' = NextByte + n \/ NextByte' = NextByte + n - 1
        BY <3>1, <4>1, <4>2 DEF NextByte
      <4> QED
        BY <4>3
    <3>4. ASSUME NEW i \in 1 .. n
          PROVE  Popped(n)[i] = NextByte + i - 1
      <4>1. CASE i <= HeadUsed
        <5>1. /\ buf_head + i - 1 \in Offsets
              /\ InWindow(buf_head + i - 1)
              /\ StreamAt(buf_head + i - 1) = NextByte + i - 1
          BY <2>0, <2>3, <3>1, <4>1
             DEF PopOk, Available, HeadUsed, TypeOK, Offsets, InWindow, StreamAt, Used, NextByte
        <5> QED
          BY <2>3, <4>1, <5>1 DEF Popped, IndInv, UnreadIntact, PopOk
      <4>2. CASE ~(i <= HeadUsed)
        <5>1. /\ i - 1 - HeadUsed \in Offsets
              /\ InWindow(i - 1 - HeadUsed)
              /\ StreamAt(i - 1 - HeadUsed) = NextByte + i - 1
          BY <2>0, <2>3, <3>1, <4>2
             DEF PopOk, Available, HeadUsed, TypeOK, Offsets, InWindow, StreamAt, Used, NextByte
        <5> QED
          BY <2>3, <4>2, <5>1 DEF Popped, IndInv, UnreadIntact, PopOk
      <4> QED
        BY <4>1, <4>2
    <3>5. out' = [i \in 1 .. n |-> NextByte + i - 1]
      BY <2>3, <3>4 DEF PopOk, Popped
    <3> QED
      BY <2>3, <3>2, <3>3, <3>5 DEF Stream!Deliver, PopOk
  <2>4. CASE UNCHANGED ringVars
    BY <2>4 DEF ringVars, Stream!vars, NextByte, Used
  <2>5. ASSUME NEW size \in Sizes, CreateFails(size)
        PROVE  UNCHANGED Stream!vars
    BY <2>5 DEF CreateFails, Stream!vars, NextByte, Used
  <2>6. CASE ringbuf_destroy
    BY <2>6 DEF ringbuf_destroy, Stream!vars, NextByte, Used
  <2>7. CASE UNCHANGED vars
    BY <2>7 DEF vars, Stream!vars, NextByte, Used
  <2> QED
    BY <2>1, <2>2, <2>3, <2>4, <2>5, <2>6, <2>7
       DEF Next, Stream!Next, PushRefused, PopRefused, ringbuf_get_size,
           ringbuf_get_used_size, ringbuf_get_free_size
<1> QED
  BY <1>1, <1>2, Invariance, PTL DEF Spec, StreamSpec, Stream!Spec
-----------------------------------------------------------------------------
\* How far a pop of n bytes moves the stream on: by all n, except that a pop that
\* ends at the last offset leaves its last byte to be delivered once more.
RepeatsOnlyAtEnd ==
  [][\A c \in Consumers, n \in PopSizes : PopOk(c, n) =>
       /\ NextByte' = IF n = HeadUsed THEN NextByte + n - 1 ELSE NextByte + n
       /\ n > 1 => NextByte' > NextByte]_vars

\* Every pop of more than one byte makes progress, and ringbuf_pop delivers a byte
\* twice only where it has put the head back to RINGBUF_END.
THEOREM PopRepeatsOnlyAtEnd == Spec => RepeatsOnlyAtEnd
<1> USE RingBufAssumption
<1>1. ASSUME TypeOK, NEW c \in Consumers, NEW n \in PopSizes, PopOk(c, n)
      PROVE  /\ NextByte' = IF n = HeadUsed THEN NextByte + n - 1 ELSE NextByte + n
             /\ n > 1 => NextByte' > NextByte
  <2>1. /\ n \in Int /\ n > 0 /\ n < Used /\ pbuf = "live"
        /\ buf_head' = HeadAfterPop(n) /\ UNCHANGED <<buf_size, buf_tail, pushed>>
    BY <1>1 DEF PopOk, Available
  <2>2. /\ buf_size \in Nat /\ buf_head \in Nat /\ buf_tail \in Nat /\ pushed \in Nat
        /\ buf_head < buf_size /\ buf_tail < buf_size
    BY <1>1, <2>1 DEF TypeOK
  <2>3. Used' = IF n = HeadUsed THEN Used - n + 1 ELSE Used - n
    BY <2>1, <2>2 DEF HeadAfterPop, HeadUsed, Used
  <2>4. Used \in Int
    BY <2>2 DEF Used
  <2> QED
    BY <2>1, <2>2, <2>3, <2>4 DEF NextByte
<1>2. TypeOK /\ [Next]_vars =>
        [\A c \in Consumers, n \in PopSizes : PopOk(c, n) =>
           /\ NextByte' = IF n = HeadUsed THEN NextByte + n - 1 ELSE NextByte + n
           /\ n > 1 => NextByte' > NextByte]_vars
  BY <1>1
<1> QED
  BY <1>2, TypeCorrect, PTL DEF Spec, RepeatsOnlyAtEnd
=============================================================================

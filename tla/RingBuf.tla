------------------------------ MODULE RingBuf ------------------------------
(***************************************************************************)
(* The mutex-protected byte ring buffer of common/BufferManager/ring_buf.c *)
(* with its producers and consumers.                                       *)
(*                                                                         *)
(* Every push, pop and size query runs its whole body between              *)
(* pthread_mutex_lock and pthread_mutex_unlock, so each is one atomic      *)
(* step; threads interleave between steps.  Pointers are offsets from      *)
(* buf_start.  A byte is represented by its position in the stream the     *)
(* producers have pushed (1, 2, 3, ...); 0 is the uninitialised content of *)
(* a block fresh from malloc.                                              *)
(***************************************************************************)
EXTENDS Integers, Sequences

CONSTANTS
  Sizes,      \* the values of `size` given to ringbuf_create
  PushSizes,  \* the values of `size` given to ringbuf_push
  PopSizes,   \* the values of `size` given to ringbuf_pop
  Producers,  \* threads that call ringbuf_push
  Consumers,  \* threads that call ringbuf_pop
  MaxStream   \* bound: bytes accepted from producers during one lifetime

ASSUME RingBufAssumption ==
  /\ Sizes \subseteq Nat
  /\ PushSizes \subseteq Int
  /\ PopSizes \subseteq Int
  /\ MaxStream \in Nat

VARIABLES
  pbuf,       \* "null" before create (or after a failed one), "live", "freed"
  buf_size,   \* capacity given to create
  buf_head,   \* offset of the consumer
  buf_tail,   \* offset of the producer
  buf,        \* content of the buf_size bytes at buf_start
  pushed,     \* number of bytes accepted so far: the stream is 1..pushed
  out,        \* bytes the last successful pop copied to its caller
  ret,        \* return value of the last call
  seenFree,   \* seenFree[p]: what p learned from get_free_size and has not used
  seenUsed    \* seenUsed[c]: what c learned from get_used_size and has not used

ringVars == <<pbuf, buf_size, buf_head, buf_tail, buf, pushed, out>>
vars == <<pbuf, buf_size, buf_head, buf_tail, buf, pushed, out,
          ret, seenFree, seenUsed>>
-----------------------------------------------------------------------------
Offsets == 0 .. buf_size - 1

\* The `data` argument of push and pop, as far as their guards look at it.
Data == {"NULL", "given"}

\* RINGBUF_USED and RINGBUF_FREE
Used == IF buf_head <= buf_tail
          THEN buf_tail - buf_head
          ELSE buf_size + buf_tail - buf_head

Free == IF buf_head <= buf_tail
          THEN buf_size + buf_head - buf_tail
          ELSE buf_head - buf_tail

Init ==
  /\ pbuf = "null"
  /\ buf_size = 0 /\ buf_head = 0 /\ buf_tail = 0
  /\ buf = [k \in {} |-> 0]
  /\ pushed = 0
  /\ out = <<>>
  /\ ret = 0
  /\ seenFree = [p \in Producers |-> 0]
  /\ seenUsed = [c \in Consumers |-> 0]

\* ringbuf_create.  Size 0 returns -1 and leaves *pbuf alone, a failed
\* malloc returns -1 with *pbuf = NULL.
CreateOk(size) ==
  /\ pbuf # "live"
  /\ size > 0
  /\ pbuf' = "live"
  /\ buf_size' = size
  /\ buf_head' = 0 /\ buf_tail' = 0
  /\ buf' = [k \in 0 .. size - 1 |-> 0]
  /\ pushed' = 0 /\ out' = <<>>
  /\ ret' = 0
  /\ seenFree' = [p \in Producers |-> 0]
  /\ seenUsed' = [c \in Consumers |-> 0]

CreateFails(size) ==
  /\ pbuf # "live"
  /\ pbuf' = IF size > 0 THEN "null" ELSE pbuf
  /\ ret' = -1
  /\ UNCHANGED <<buf_size, buf_head, buf_tail, buf, pushed, out,
                 seenFree, seenUsed>>

\* The guards of ringbuf_push and ringbuf_pop; both are strict.
FitsExactly(n) == n > 0 /\ n <= Free  \* variant: a push may fill the buffer
Fits(n) == n > 0 /\ n < Free

UpToSize(n) == n > 0 /\ n < buf_size  \* variant: compares with the size, not with RINGBUF_USED
Available(n) == n > 0 /\ n < Used

\* What ringbuf_push leaves in the buffer: one memcpy when the room up to
\* the end suffices, otherwise two, the second one from buf_start.
TailFree == buf_size - buf_tail

\* Variant: the second memcpy starts at the beginning of the data again.
AfterPushRestarted(n) ==
  [k \in Offsets |->
     IF k \in buf_tail .. buf_tail + n - 1 THEN pushed + 1 + (k - buf_tail)
     ELSE IF k < n - TailFree THEN pushed + 1 + k
     ELSE buf[k]]

AfterPush(n) ==
  [k \in Offsets |->
     IF k \in buf_tail .. buf_tail + n - 1 THEN pushed + 1 + (k - buf_tail)
     ELSE IF k < n - TailFree THEN pushed + 1 + TailFree + k
     ELSE buf[k]]

\* Variant: the tail is not put back to the start when it reaches the end.
TailUnwrapped(n) == IF TailFree >= n THEN buf_tail + n ELSE n - TailFree

TailAfterPush(n) ==
  IF TailFree >= n
    THEN IF buf_tail + n > buf_size - 1 THEN 0 ELSE buf_tail + n
    ELSE n - TailFree

PushOk(p, n) ==
  /\ pbuf = "live"
  /\ Fits(n)
  /\ pushed + n <= MaxStream
  /\ buf' = AfterPush(n)
  /\ buf_tail' = TailAfterPush(n)
  /\ pushed' = pushed + n
  /\ ret' = n
  /\ seenFree' = [seenFree EXCEPT ![p] = 0]
  /\ UNCHANGED <<pbuf, buf_size, buf_head, out, seenUsed>>

PushRefused(p, data, n) ==
  /\ pbuf = "live"
  /\ data = "NULL" \/ ~Fits(n)
  /\ ret' = 0
  /\ UNCHANGED <<ringVars, seenFree, seenUsed>>

\* What ringbuf_pop copies to its caller, one or two memcpys, and where it
\* leaves the head: a pop that ends exactly at the end of the buffer moves
\* the head back to the last byte (RINGBUF_END), not to RINGBUF_START.
HeadUsed == buf_size - buf_head

\* Variant: the second memcpy reads on from the head.
PoppedUnwrapped(n) ==
  [i \in 1 .. n |->
     IF i <= HeadUsed THEN buf[buf_head + i - 1] ELSE buf[buf_head]]

Popped(n) ==
  [i \in 1 .. n |->
     IF i <= HeadUsed THEN buf[buf_head + i - 1] ELSE buf[i - 1 - HeadUsed]]

\* Variant: a wrapped pop does not move the head.
HeadStuck(n) ==
  IF HeadUsed >= n
    THEN IF buf_head + n > buf_size - 1 THEN buf_size - 1 ELSE buf_head + n
    ELSE buf_head

HeadAfterPop(n) ==
  IF HeadUsed >= n
    THEN IF buf_head + n > buf_size - 1 THEN buf_size - 1 ELSE buf_head + n
    ELSE n - HeadUsed

PopOk(c, n) ==
  /\ pbuf = "live"
  /\ Available(n)
  /\ out' = Popped(n)
  /\ buf_head' = HeadAfterPop(n)
  /\ ret' = n
  /\ seenUsed' = [seenUsed EXCEPT ![c] = 0]
  /\ UNCHANGED <<pbuf, buf_size, buf_tail, buf, pushed, seenFree>>

PopRefused(c, data, n) ==
  /\ pbuf = "live"
  /\ data = "NULL" \/ ~Available(n)
  /\ ret' = 0
  /\ UNCHANGED <<ringVars, seenFree, seenUsed>>

ringbuf_get_size ==
  /\ pbuf = "live"
  /\ ret' = buf_size
  /\ UNCHANGED <<ringVars, seenFree, seenUsed>>

ringbuf_get_used_size(c) ==
  /\ pbuf = "live"
  /\ ret' = Used
  /\ seenUsed' = [seenUsed EXCEPT ![c] = Used]
  /\ UNCHANGED <<ringVars, seenFree>>

ringbuf_get_free_size(p) ==
  /\ pbuf = "live"
  /\ ret' = Free
  /\ seenFree' = [seenFree EXCEPT ![p] = Free]
  /\ UNCHANGED <<ringVars, seenUsed>>

\* ringbuf_destroy frees the block; it neither locks nor checks.
ringbuf_destroy ==
  /\ pbuf = "live"
  /\ pbuf' = "freed"
  /\ UNCHANGED <<buf_size, buf_head, buf_tail, buf, pushed, out, ret,
                 seenFree, seenUsed>>

Next ==
  \/ \E size \in Sizes : CreateOk(size)
  \/ \E size \in Sizes : CreateFails(size)
  \/ \E p \in Producers, n \in PushSizes : PushOk(p, n)
  \/ \E p \in Producers, data \in Data, n \in PushSizes : PushRefused(p, data, n)
  \/ \E c \in Consumers, n \in PopSizes : PopOk(c, n)
  \/ \E c \in Consumers, data \in Data, n \in PopSizes : PopRefused(c, data, n)
  \/ ringbuf_get_size
  \/ \E c \in Consumers : ringbuf_get_used_size(c)
  \/ \E p \in Producers : ringbuf_get_free_size(p)
  \/ ringbuf_destroy

Spec == Init /\ [][Next]_vars

\* A consumer thread that polls: whenever a pop of one of its sizes keeps
\* being possible, one is eventually performed.  The mutex is released by
\* every call, so a polling thread is only ever delayed.
PollingSpec ==
  /\ Spec
  /\ WF_vars(\E c \in Consumers, n \in PopSizes : PopOk(c, n))
-----------------------------------------------------------------------------
(***************************************************************************)
(* Properties                                                              *)
(***************************************************************************)

\* Every variable of ring_buf.c stays in its range: while the buffer is
\* live both pointers are inside the buf_size bytes, so that no memcpy of
\* push or pop leaves the block.
TypeOK ==
  /\ pbuf \in {"null", "live", "freed"}
  /\ buf_size \in Nat /\ buf_head \in Nat /\ buf_tail \in Nat
  /\ pushed \in 0 .. MaxStream
  /\ buf \in [Offsets -> Nat]
  /\ ret \in Int
  /\ seenFree \in [Producers -> Nat]
  /\ seenUsed \in [Consumers -> Nat]
  /\ pbuf = "live" => buf_head < buf_size /\ buf_tail < buf_size

\* The offset k lies in the part the macros count as used.
InWindow(k) ==
  IF buf_head <= buf_tail THEN buf_head <= k /\ k < buf_tail
                          ELSE buf_head <= k \/ k < buf_tail

\* The position in the stream that the byte at a used offset k must have.
StreamAt(k) ==
  IF k < buf_tail THEN pushed - buf_tail + k + 1
                  ELSE pushed - buf_tail + k + 1 - buf_size

\* The used part of the buffer always holds exactly the last Used bytes of
\* the pushed stream, in order: no push, wrapped or not, ever overwrites a
\* byte that pop has still to deliver (the guards of ringbuf_push and
\* ringbuf_pop together with the two memcpys of each).
UnreadIntact ==
  pbuf = "live" =>
    /\ Used <= pushed
    /\ \A k \in Offsets : InWindow(k) => buf[k] = StreamAt(k)

\* head = tail is ambiguous between empty and full.  The strict comparisons
\* in push (one byte stays free) and in pop (one byte stays behind) make it
\* occur only before the first push: a full buffer never looks empty, and
\* a buffer that has been used is never drained.
EqualPointersMeanUnused ==
  pbuf = "live" /\ buf_head = buf_tail => pushed = 0

\* What get_free_size and get_used_size return is computed under the mutex
\* and used after it has been released.  With one producer the room it saw
\* is still there when it pushes, and with one consumer the bytes it saw
\* are still there when it pops, whatever the other side did in between.
QueriesStayValid ==
  pbuf = "live" =>
    /\ \A p \in Producers : Producers = {p} => seenFree[p] <= Free
    /\ \A c \in Consumers : Consumers = {c} => seenUsed[c] <= Used

\* The strengthening that makes the three invariants inductive: their
\* conjunction with the type invariant.
IndInv ==
  /\ TypeOK
  /\ UnreadIntact
  /\ EqualPointersMeanUnused
  /\ QueriesStayValid

\* The first byte of the stream that pop has still to deliver.
NextByte == pushed - Used + 1

\* The stream the buffer implements: an in-order, lossless byte stream that
\* may deliver the last byte of a pop once more (see ByteStream).
Stream == INSTANCE ByteStream WITH
            cap <- buf_size, sent <- pushed, next <- NextByte, got <- out

\* Every step of the ring buffer is a step of that stream.
StreamSpec == Stream!Spec

\* A polling consumer gets every byte except those its pop size cannot
\* reach yet (pop refuses to take the last byte): a byte with n bytes behind
\* it, n the consumer's pop size, is eventually passed by the head.  It
\* does not hold for a consumer that pops single bytes: at the last offset
\* a one-byte pop leaves the head where it is.
PolledBytesArrive ==
  \A k \in 1 .. MaxStream, n \in PopSizes :
    n > 0 =>
      ((pbuf = "live" /\ pushed >= k + n) ~> (NextByte > k \/ pbuf = "freed"))

\* The head is the consumer's position (ring_buf.c:36): a pop of n bytes
\* advances the stream by n bytes, so no byte is handed out twice.
HeadIsConsumer ==
  [][\A c \in Consumers, n \in PopSizes :
       PopOk(c, n) => NextByte' = NextByte + n]_vars
=============================================================================

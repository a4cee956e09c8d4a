---------------------------- MODULE FramesQueue ----------------------------
(***************************************************************************)
(* The mutex-protected queue of audio frames of                            *)
(* common/BufferManager/frames_queue.c with its producers and consumers.   *)
(*                                                                         *)
(* Every operation runs between pthread_mutex_lock and                     *)
(* pthread_mutex_unlock and is one atomic step.  A frame is represented by *)
(* its number in the order of the accepted pushes, a malloc'ed block by    *)
(* its number in the order of the allocations (0 is NULL).  Pop does not   *)
(* copy: it hands the slot's block to the consumer, so the model keeps,    *)
(* per consumer, which block it was given and which frame that block held. *)
(***************************************************************************)
EXTENDS Integers, Sequences

CONSTANTS
  QueueSizes,  \* the values of num_frames given to frames_queue_create
  FrameSizes,  \* the values of size given to frames_queue_push
  Consumers,   \* threads that call pop and get_num_valid_frames
  MaxFrames    \* bound: frames accepted during one lifetime of the queue

ASSUME FramesQueueAssumption ==
  /\ QueueSizes \subseteq Nat \ {0}
  /\ FrameSizes \subseteq Nat
  /\ MaxFrames \in Nat

VARIABLES
  queue,       \* "null", "live", "freed", "broken" (create failed half-way)
               \* or "crashed"
  num_frames,  \* number of slots
  index_head,  \* slot the next pop takes
  index_tail,  \* slot the next push fills
  frames,      \* the slots: struct aframe, and the frame its block holds
  blocks,      \* number of blocks allocated
  log,         \* log[k] is the size of the k-th accepted frame
  popped,      \* number of frames popped
  held,        \* held[c]: what c's last pop gave it
  got,         \* number and size of the frame the last pop delivered
  ret,         \* return value of the last call
  seen         \* seen[c]: frames c still expects from get_num_valid_frames

slotVars == <<num_frames, index_head, index_tail, frames, blocks>>
histVars == <<log, popped, held, got>>
vars == <<queue, num_frames, index_head, index_tail, frames, blocks,
          log, popped, held, got, ret, seen>>
-----------------------------------------------------------------------------
Slots == 0 .. num_frames - 1

EmptySlot == [ready |-> FALSE, valid_size |-> 0, size |-> 0, data |-> 0, frame |-> 0]

NotHeld == [slot |-> 0, data |-> 0, frame |-> 0]

\* The `buf` argument of push, as far as its guard looks at it.
Bufs == {"NULL", "given"}

\* The wrap of both indices: back to 0 after the last slot.
WrapEarly(i) == IF i + 1 >= num_frames - 1 THEN 0 ELSE i + 1  \* variant
NoWrap(i) == i + 1  \* variant
Advance(i) == IF i + 1 = num_frames THEN 0 ELSE i + 1

\* What frames_queue_get_num_valid_frames returns: it looks at the indices
\* only.
CountFullWhenEmpty ==  \* variant: equal indices taken for a full queue
  IF index_head < index_tail THEN index_tail - index_head
                             ELSE num_frames + index_tail - index_head
NumValid == IF index_head <= index_tail
              THEN index_tail - index_head
              ELSE num_frames + index_tail - index_head

Init ==
  /\ queue = "null"
  /\ num_frames = 0 /\ index_head = 0 /\ index_tail = 0
  /\ frames = [i \in {} |-> EmptySlot]
  /\ blocks = 0
  /\ log = <<>> /\ popped = 0
  /\ held = [c \in Consumers |-> NotHeld]
  /\ got = [frame |-> 0, size |-> 0]
  /\ ret = 0
  /\ seen = [c \in Consumers |-> 0]

\* frames_queue_create.  When the second malloc fails the caller is left
\* with a queue that has no frames, and -1.
CreateOk(n) ==
  /\ queue \notin {"live", "crashed"}
  /\ queue' = "live"
  /\ num_frames' = n /\ index_head' = 0 /\ index_tail' = 0
  /\ frames' = [i \in 0 .. n - 1 |-> EmptySlot]
  /\ blocks' = 0
  /\ log' = <<>> /\ popped' = 0
  /\ held' = [c \in Consumers |-> NotHeld]
  /\ got' = [frame |-> 0, size |-> 0]
  /\ ret' = 0
  /\ seen' = [c \in Consumers |-> 0]

CreateFails ==
  /\ queue \notin {"live", "crashed"}
  /\ queue' \in {"null", "broken"}
  /\ ret' = -1
  /\ UNCHANGED <<slotVars, histVars, seen>>

\* frames_queue_push: Filled is the slot after the memcpy of a new frame of
\* size n to a block of the given size.
\* Variants: the size of the block is noted as that of the frame; the slot is
\* not marked ready.
FilledWholeBlock(data, size, n) ==
  [ready |-> TRUE, valid_size |-> size, size |-> size, data |-> data,
   frame |-> Len(log) + 1]

FilledNotReady(data, size, n) ==
  [ready |-> FALSE, valid_size |-> n, size |-> size, data |-> data,
   frame |-> Len(log) + 1]

Filled(data, size, n) ==
  [ready |-> TRUE, valid_size |-> n, size |-> size, data |-> data,
   frame |-> Len(log) + 1]

PushRefused(buf, n) ==
  /\ queue = "live"
  /\ buf = "NULL" \/ n = 0 \/ frames[index_tail].ready
  /\ ret' = -1
  /\ UNCHANGED <<queue, slotVars, histVars, seen>>

\* The slot's block is large enough and is used again.  A slot whose last
\* malloc failed has no block and still its old size: memcpy to NULL.
PushReuses(n) ==
  /\ queue = "live"
  /\ n # 0 /\ ~frames[index_tail].ready
  /\ frames[index_tail].size >= n
  /\ frames[index_tail].data # 0
  /\ Len(log) < MaxFrames
  /\ frames' = [frames EXCEPT ![index_tail] = Filled(@.data, @.size, n)]
  /\ index_tail' = Advance(index_tail)
  /\ log' = Append(log, n)
  /\ ret' = 0
  /\ UNCHANGED <<queue, num_frames, index_head, blocks, popped, held, got, seen>>

PushToNull(n) ==
  /\ queue = "live"
  /\ n # 0 /\ ~frames[index_tail].ready
  /\ frames[index_tail].size >= n
  /\ frames[index_tail].data = 0
  /\ queue' = "crashed"
  /\ UNCHANGED <<slotVars, histVars, ret, seen>>

\* The slot's block is too small: it is freed and a new one is allocated.
PushGrows(n) ==
  /\ queue = "live"
  /\ n # 0 /\ ~frames[index_tail].ready
  /\ frames[index_tail].size < n
  /\ Len(log) < MaxFrames
  /\ blocks' = blocks + 1
  /\ frames' = [frames EXCEPT ![index_tail] = Filled(blocks + 1, n, n)]
  /\ index_tail' = Advance(index_tail)
  /\ log' = Append(log, n)
  /\ ret' = 0
  /\ UNCHANGED <<queue, num_frames, index_head, popped, held, got, seen>>

\* The same, when malloc fails: the block is gone, the size stays.
PushGrowFails(n) ==
  /\ queue = "live"
  /\ n # 0 /\ ~frames[index_tail].ready
  /\ frames[index_tail].size < n
  /\ frames' = [frames EXCEPT ![index_tail].data = 0]
  /\ ret' = -1
  /\ UNCHANGED <<queue, num_frames, index_head, index_tail, blocks, histVars, seen>>

\* frames_queue_pop
PopOk(c) ==
  /\ queue = "live"
  /\ frames[index_head].ready
  /\ held' = [held EXCEPT ![c] = [slot  |-> index_head,
                                  data  |-> frames[index_head].data,
                                  frame |-> frames[index_head].frame]]
  /\ got' = [frame |-> frames[index_head].frame,
             size |-> frames[index_head].valid_size]
  /\ frames' = [frames EXCEPT ![index_head].ready = FALSE]
  /\ index_head' = Advance(index_head)
  /\ popped' = popped + 1
  /\ ret' = 0
  /\ seen' = [seen EXCEPT ![c] = IF @ = 0 THEN 0 ELSE @ - 1]
  /\ UNCHANGED <<queue, num_frames, index_tail, blocks, log>>

PopRefused ==
  /\ queue = "live"
  /\ ~frames[index_head].ready
  /\ ret' = -1
  /\ UNCHANGED <<queue, slotVars, histVars, seen>>

\* The indices are read under the mutex, the result is used after it.
frames_queue_get_num_valid_frames(c) ==
  /\ queue = "live"
  /\ ret' = NumValid
  /\ seen' = [seen EXCEPT ![c] = NumValid]
  /\ UNCHANGED <<queue, slotVars, histVars>>

\* frames_queue_destroy frees the queue and then unlocks the mutex inside
\* it: the unlock goes unnoticed or ends the program.
frames_queue_destroy ==
  /\ queue = "live"
  /\ queue' \in {"freed", "crashed"}
  /\ ret' = 0
  /\ UNCHANGED <<slotVars, histVars, seen>>

Next ==
  \/ \E n \in QueueSizes : CreateOk(n)
  \/ CreateFails
  \/ \E buf \in Bufs, n \in FrameSizes : PushRefused(buf, n)
  \/ \E n \in FrameSizes : PushReuses(n)
  \/ \E n \in FrameSizes : PushToNull(n)
  \/ \E n \in FrameSizes : PushGrows(n)
  \/ \E n \in FrameSizes : PushGrowFails(n)
  \/ \E c \in Consumers : PopOk(c)
  \/ PopRefused
  \/ \E c \in Consumers : frames_queue_get_num_valid_frames(c)
  \/ frames_queue_destroy

Spec == Init /\ [][Next]_vars

\* A consumer that polls the queue: a pop that stays possible is performed.
PollingSpec == Spec /\ WF_vars(\E c \in Consumers : PopOk(c))
-----------------------------------------------------------------------------
(***************************************************************************)
(* Properties                                                              *)
(***************************************************************************)
Slot == [ready : BOOLEAN, valid_size : Nat, size : Nat, data : Nat, frame : Nat]

\* Every variable of frames_queue.c stays in its range; in a live queue both
\* indices name a slot.
TypeOK ==
  /\ queue \in {"null", "live", "freed", "broken", "crashed"}
  /\ num_frames \in Nat /\ index_head \in Nat /\ index_tail \in Nat
  /\ frames \in [Slots -> Slot]
  /\ blocks \in Nat
  /\ log \in Seq(Nat)
  /\ popped \in Nat
  /\ held \in [Consumers -> [slot : Nat, data : Nat, frame : Nat]]
  /\ got \in [frame : Nat, size : Nat]
  /\ ret \in Int
  /\ seen \in [Consumers -> Nat]
  /\ queue = "live" => index_head \in Slots /\ index_tail \in Slots

\* Number of frames in the queue.
Count == Len(log) - popped

\* The slot i is between the head and the tail, going round.  When the two
\* meet every slot is, or none: the ready flag of that slot tells which.
InWindow(i) ==
  IF index_head < index_tail THEN index_head <= i /\ i < index_tail
  ELSE IF index_tail < index_head THEN index_head <= i \/ i < index_tail
  ELSE Count > 0

\* The ready flags, which alone guard push and pop, and the two indices,
\* which alone are counted, agree: the ready slots are exactly the window
\* from head to tail, and there are Count of them.
ReadyIsWindow ==
  queue = "live" =>
    /\ \A i \in Slots : frames[i].ready <=> InWindow(i)
    /\ Count = IF index_head < index_tail THEN index_tail - index_head
               ELSE IF index_tail < index_head
                      THEN num_frames + index_tail - index_head
               ELSE IF frames[index_head].ready THEN num_frames ELSE 0

\* The last frame pushed into slot i (not positive when there is none yet).
Latest(i) == IF i < index_tail THEN Len(log) - index_tail + i + 1
                               ELSE Len(log) - index_tail + i + 1 - num_frames

\* Every ready slot still holds the frame and the size that were pushed into
\* it: a reused or reallocated block never leaks into a waiting frame.
WaitingFramesIntact ==
  queue = "live" =>
    \A i \in Slots : frames[i].ready =>
      /\ frames[i].frame = Latest(i)
      /\ frames[i].data # 0
      /\ frames[i].valid_size = log[Latest(i)]

\* Pop returns the queue's own block, which a later push fills again or
\* frees.  The consumer is safe for a while: until num_frames - 1 pushes
\* after frame f were accepted, the block it was given for f is allocated
\* and still holds f.
HeldFramesIntact ==
  queue = "live" =>
    \A c \in Consumers :
      LET h == held[c] IN
        h.frame # 0 /\ Len(log) < h.frame + num_frames - 1 =>
          /\ h.slot \in Slots
          /\ frames[h.slot].data = h.data
          /\ frames[h.slot].frame = h.frame

\* Strengthening of HeldFramesIntact for the proofs: until num_frames more
\* frames were accepted, f is the last frame pushed into its slot.
HeldFramesLatest ==
  queue = "live" =>
    \A c \in Consumers :
      held[c].frame # 0 /\ Len(log) < held[c].frame + num_frames =>
        held[c].slot \in Slots /\ Latest(held[c].slot) = held[c].frame

\* With a single consumer, the number of frames it was told stays available
\* until it has popped that many, whatever the producers do in between.
SeenFramesStay ==
  queue = "live" =>
    \A c \in Consumers : Consumers = {c} => seen[c] <= Count

\* frames_queue_get_num_valid_frames returns "the number of valid frames in
\* queue" (frames_queue.h:35).  It does not in a full queue.
CountIsFrames ==
  [][\A c \in Consumers :
       frames_queue_get_num_valid_frames(c) => ret' = Count]_vars

\* What it does return: the number of frames, but 0 when the queue is full and
\* the indices have met again.
CountExactUnlessFull ==
  queue = "live" => NumValid = IF Count = num_frames THEN 0 ELSE Count

\* The inductive invariant.
IndInv ==
  /\ TypeOK
  /\ ReadyIsWindow
  /\ WaitingFramesIntact
  /\ HeldFramesLatest
  /\ HeldFramesIntact
  /\ SeenFramesStay

\* The queue implements a bounded first-in-first-out queue (see FrameFifo).
Fifo == INSTANCE FrameFifo WITH cap <- num_frames, taken <- popped

\* Every step of the frames queue is a step of that queue.
FifoSpec == Fifo!Spec

\* A polling consumer gets every frame that was accepted.
FramesArrive ==
  \A k \in 1 .. MaxFrames :
    (queue = "live" /\ Len(log) >= k)
      ~> (popped >= k \/ queue \in {"freed", "crashed"})
=============================================================================

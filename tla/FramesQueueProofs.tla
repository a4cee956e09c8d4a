-------------------------- MODULE FramesQueueProofs --------------------------
(***************************************************************************)
(* Proofs about FramesQueue, for every number of slots, every set of       *)
(* consumers and every set of frame sizes.                                 *)
(***************************************************************************)
EXTENDS FramesQueue, TLAPS

\* What an accepted push does, whether the slot's block was reused or
\* reallocated: it fills the slot at the tail and touches no other.
AcceptedPush(n) ==
  /\ queue = "live" /\ queue' = "live"
  /\ ~frames[index_tail].ready
  /\ n \in Nat
  /\ frames' \in [Slots -> Slot]
  /\ frames'[index_tail].ready
  /\ frames'[index_tail].valid_size = n
  /\ frames'[index_tail].frame = Len(log) + 1
  /\ frames'[index_tail].data # 0
  /\ \A i \in Slots : i # index_tail => frames'[i] = frames[i]
  /\ index_tail' = Advance(index_tail)
  /\ log' = Append(log, n)
  /\ blocks' \in Nat
  /\ ret' = 0
  /\ UNCHANGED <<num_frames, index_head, popped, held, got, seen>>

\* Both ways through frames_queue_push that accept the frame do just that.
LEMMA PushShape ==
  ASSUME TypeOK, NEW n \in FrameSizes, PushReuses(n) \/ PushGrows(n)
  PROVE  AcceptedPush(n)
<1> USE FramesQueueAssumption
<1>0. /\ index_tail \in Slots /\ frames[index_tail] \in Slot /\ Len(log) \in Nat
      /\ n \in Nat /\ blocks \in Nat /\ frames \in [Slots -> Slot]
  BY DEF TypeOK, PushReuses, PushGrows
<1>1. CASE PushReuses(n)
  <2> DEFINE new == Filled(frames[index_tail].data, frames[index_tail].size, n)
  <2>1. /\ new \in Slot
        /\ new.ready = TRUE
        /\ new.valid_size = n
        /\ new.frame = Len(log) + 1
        /\ new.data # 0
    BY <1>0, <1>1 DEF Filled, Slot, PushReuses
  <2>2. frames' = [frames EXCEPT ![index_tail] = new]
    BY <1>1 DEF PushReuses
  <2> HIDE DEF new
  <2> QED
    BY <1>0, <1>1, <2>1, <2>2 DEF PushReuses, AcceptedPush
<1>2. CASE PushGrows(n)
  <2> DEFINE new == Filled(blocks + 1, n, n)
  <2>1. /\ new \in Slot
        /\ new.ready = TRUE
        /\ new.valid_size = n
        /\ new.frame = Len(log) + 1
        /\ new.data # 0
    BY <1>0, <1>2 DEF Filled, Slot, PushGrows
  <2>2. frames' = [frames EXCEPT ![index_tail] = new]
    BY <1>2 DEF PushGrows
  <2> HIDE DEF new
  <2> QED
    BY <1>0, <1>2, <2>1, <2>2 DEF PushGrows, AcceptedPush
<1> QED
  BY <1>1, <1>2

\* What a successful pop does to the slots: it clears one ready flag.
ClearedSlot ==
  /\ queue = "live" /\ queue' = "live"
  /\ frames[index_head].ready
  /\ frames' \in [Slots -> Slot]
  /\ ~frames'[index_head].ready
  /\ frames'[index_head].data = frames[index_head].data
  /\ frames'[index_head].frame = frames[index_head].frame
  /\ \A i \in Slots : i # index_head => frames'[i] = frames[i]

\* That is all frames_queue_pop does to them.
LEMMA PopShape ==
  ASSUME TypeOK, NEW c \in Consumers, PopOk(c)
  PROVE  ClearedSlot
<1>0. index_head \in Slots /\ frames[index_head] \in Slot
  BY DEF TypeOK, PopOk
<1> QED
  BY <1>0 DEF PopOk, TypeOK, Slot, ClearedSlot

\* Every step preserves the type invariant.
LEMMA TypeStep == TypeOK /\ [Next]_vars => TypeOK'
<1> USE FramesQueueAssumption
<1> SUFFICES ASSUME TypeOK, [Next]_vars
             PROVE  TypeOK'
  OBVIOUS
<1>1. ASSUME NEW n \in QueueSizes, CreateOk(n)
      PROVE  TypeOK'
  BY <1>1 DEF CreateOk, TypeOK, Slots, Slot, EmptySlot, NotHeld
<1>2. CASE CreateFails
  BY <1>2 DEF CreateFails, slotVars, histVars, TypeOK, Slots
<1>3. ASSUME NEW buf \in Bufs, NEW n \in FrameSizes, PushRefused(buf, n)
      PROVE  TypeOK'
  BY <1>3 DEF PushRefused, slotVars, histVars, TypeOK, Slots
<1>4. ASSUME NEW n \in FrameSizes, PushReuses(n) \/ PushGrows(n)
      PROVE  TypeOK'
  <2>0. AcceptedPush(n)
    BY <1>4, PushShape
  <2>1. index_tail' \in Slots
    BY <2>0 DEF AcceptedPush, TypeOK, Advance, Slots
  <2>2. log' \in Seq(Nat)
    BY <2>0 DEF AcceptedPush, TypeOK
  <2> QED
    BY <2>0, <2>1, <2>2 DEF AcceptedPush, TypeOK, Slots
<1>5. ASSUME NEW n \in FrameSizes, PushToNull(n)
      PROVE  TypeOK'
  BY <1>5 DEF PushToNull, slotVars, histVars, TypeOK, Slots
<1>6. ASSUME NEW n \in FrameSizes, PushGrowFails(n)
      PROVE  TypeOK'
  <2>1. index_tail \in Slots /\ frames[index_tail] \in Slot
    BY <1>6 DEF PushGrowFails, TypeOK
  <2>2. frames' \in [Slots -> Slot]
    BY <1>6, <2>1 DEF PushGrowFails, TypeOK, Slot
  <2> QED
    BY <1>6, <2>2 DEF PushGrowFails, histVars, TypeOK, Slots
<1>7. ASSUME NEW c \in Consumers, PopOk(c)
      PROVE  TypeOK'
  <2>1. index_head \in Slots /\ index_head' \in Slots
    BY <1>7 DEF PopOk, TypeOK, Advance, Slots
  <2>2. frames[index_head] \in Slot
    BY <2>1 DEF TypeOK
  <2>3. held' \in [Consumers -> [slot : Nat, data : Nat, frame : Nat]]
    <3> DEFINE new == [slot |-> index_head, data |-> frames[index_head].data,
                       frame |-> frames[index_head].frame]
    <3>1. new \in [slot : Nat, data : Nat, frame : Nat]
      BY <2>1, <2>2 DEF Slot, Slots, TypeOK
    <3>2. held' = [held EXCEPT ![c] = new]
      BY <1>7 DEF PopOk
    <3> QED
      BY <3>1, <3>2 DEF TypeOK
  <2>4. got' \in [frame : Nat, size : Nat]
    BY <1>7, <2>2 DEF PopOk, Slot
  <2>5. seen' \in [Consumers -> Nat] /\ popped' \in Nat
    BY <1>7 DEF PopOk, TypeOK
  <2>6. frames' \in [Slots -> Slot]
    BY <1>7, PopShape DEF ClearedSlot
  <2>7. ret' \in Int /\ UNCHANGED <<queue, num_frames, index_tail, blocks, log>>
    BY <1>7 DEF PopOk
  <2> QED
    BY <2>1, <2>3, <2>4, <2>5, <2>6, <2>7 DEF TypeOK, Slots
<1>8. CASE PopRefused
  BY <1>8 DEF PopRefused, slotVars, histVars, TypeOK, Slots
<1>9. ASSUME NEW c \in Consumers, frames_queue_get_num_valid_frames(c)
      PROVE  TypeOK'
  <2>1. NumValid \in Nat
    BY <1>9 DEF frames_queue_get_num_valid_frames, NumValid, TypeOK, Slots
  <2> QED
    BY <1>9, <2>1
       DEF frames_queue_get_num_valid_frames, slotVars, histVars, TypeOK, Slots
<1>10. CASE frames_queue_destroy
  BY <1>10 DEF frames_queue_destroy, slotVars, histVars, TypeOK, Slots
<1>11. CASE UNCHANGED vars
  BY <1>11 DEF vars, TypeOK, Slots
<1> QED
  BY <1>1, <1>2, <1>3, <1>4, <1>5, <1>6, <1>7, <1>8, <1>9, <1>10, <1>11
     DEF Next

\* The indices of frames_queue.c always name a slot of a live queue.
THEOREM TypeCorrect == Spec => []TypeOK
<1>1. Init => TypeOK
  BY DEF Init, TypeOK, Slots, Slot, NotHeld
<1> QED
  BY <1>1, TypeStep, PTL DEF Spec

-----------------------------------------------------------------------------
\* Facts about the indices that the invariants turn on.
LEMMA LatestOfReady ==
  ASSUME TypeOK, ReadyIsWindow, queue = "live", NEW i \in Slots, frames[i].ready
  PROVE  Latest(i) \in popped + 1 .. Len(log)
<1>1. /\ index_head \in Slots /\ index_tail \in Slots /\ num_frames \in Nat
      /\ popped \in Nat /\ Len(log) \in Nat /\ i \in Int
  BY DEF TypeOK, Slots
<1>2. InWindow(i)
  BY DEF ReadyIsWindow
<1>3. CASE index_head # index_tail
  BY <1>1, <1>2, <1>3 DEF ReadyIsWindow, InWindow, Latest, Count, Slots
<1>4. CASE index_head = index_tail
  <2>1. frames[index_head].ready
    BY <1>1, <1>2, <1>4 DEF ReadyIsWindow, InWindow
  <2>2. Count = num_frames
    BY <1>1, <1>4, <2>1 DEF ReadyIsWindow
  <2> QED
    BY <1>1, <1>4, <2>2 DEF Latest, Count, Slots
<1> QED
  BY <1>3, <1>4

\* The head always holds the next frame in order.
LEMMA HeadIsNext ==
  ASSUME TypeOK, ReadyIsWindow, queue = "live", frames[index_head].ready
  PROVE  Latest(index_head) = popped + 1
<1>1. /\ index_head \in Slots /\ index_tail \in Slots /\ num_frames \in Nat
      /\ popped \in Nat /\ Len(log) \in Nat
  BY DEF TypeOK
<1> QED
  BY <1>1 DEF ReadyIsWindow, Latest, Count, Slots

\* An accepted push moves Latest of the filled slot only.
LEMMA PushLatest ==
  ASSUME TypeOK, NEW n, AcceptedPush(n)
  PROVE  /\ Len(log') = Len(log) + 1
         /\ Latest(index_tail) = Len(log) + 1 - num_frames
         /\ \A i \in Slots : i # index_tail => Latest(i)' = Latest(i)
         /\ \A i \in Slots : i = index_tail => Latest(i)' = Len(log) + 1
<1>1. Len(log') = Len(log) + 1 /\ Len(log) \in Nat
  BY DEF AcceptedPush, TypeOK
<1>2. /\ index_tail \in Slots /\ num_frames \in Nat /\ num_frames' = num_frames
      /\ index_tail' = IF index_tail + 1 = num_frames THEN 0 ELSE index_tail + 1
  BY DEF AcceptedPush, TypeOK, Advance
<1> QED
  BY <1>1, <1>2 DEF Latest, Slots

\* Push keeps the ready flags in step with the indices.
LEMMA PushWindow ==
  ASSUME TypeOK, ReadyIsWindow, NEW n, AcceptedPush(n)
  PROVE  ReadyIsWindow'
<1>1. /\ index_head \in Slots /\ index_tail \in Slots /\ num_frames \in Nat
      /\ popped \in Nat /\ Len(log) \in Nat
  BY DEF AcceptedPush, TypeOK
<1>2. /\ num_frames' = num_frames /\ index_head' = index_head /\ popped' = popped
      /\ index_tail' = IF index_tail + 1 = num_frames THEN 0 ELSE index_tail + 1
      /\ Count' = Count + 1
  BY <1>1, PushLatest DEF AcceptedPush, Advance, Count
<1>3. /\ Count \in Int
      /\ Count = IF index_head < index_tail THEN index_tail - index_head
                 ELSE IF index_tail < index_head
                        THEN num_frames + index_tail - index_head
                 ELSE 0
  <2>1. index_head = index_tail => ~frames[index_head].ready
    BY DEF AcceptedPush
  <2> QED
    BY <1>1, <2>1 DEF ReadyIsWindow, AcceptedPush, Slots, Count
<1>4. \A i \in Slots : frames'[i].ready <=> (frames[i].ready \/ i = index_tail)
  BY DEF AcceptedPush
<1>5. \A i \in Slots : InWindow(i)' <=> (InWindow(i) \/ i = index_tail)
  BY <1>1, <1>2, <1>3 DEF InWindow, Slots
<1>6. \A i \in Slots : frames'[i].ready <=> InWindow(i)'
  BY <1>4, <1>5 DEF ReadyIsWindow, AcceptedPush
<1>7. index_head' = index_tail' => frames'[index_head].ready
  BY <1>1, <1>2, <1>3, <1>6 DEF InWindow, Slots
<1>8. Count' = IF index_head' < index_tail' THEN index_tail' - index_head'
               ELSE IF index_tail' < index_head'
                      THEN num_frames' + index_tail' - index_head'
               ELSE IF frames'[index_head'].ready THEN num_frames' ELSE 0
  BY <1>1, <1>2, <1>3, <1>7 DEF Slots
<1> QED
  BY <1>2, <1>6, <1>8 DEF ReadyIsWindow, Slots

\* Pop keeps the ready flags in step with the indices.
LEMMA PopWindow ==
  ASSUME TypeOK, ReadyIsWindow, NEW c \in Consumers, PopOk(c)
  PROVE  ReadyIsWindow'
<1>0. ClearedSlot
  BY PopShape
<1>1. /\ index_head \in Slots /\ index_tail \in Slots /\ num_frames \in Nat
      /\ popped \in Nat /\ Len(log) \in Nat
  BY <1>0 DEF ClearedSlot, TypeOK
<1>2. /\ num_frames' = num_frames /\ index_tail' = index_tail
      /\ index_head' = IF index_head + 1 = num_frames THEN 0 ELSE index_head + 1
      /\ Count' = Count - 1
  BY <1>1 DEF PopOk, Advance, Count
<1>3. /\ Count \in Int
      /\ Count = IF index_head < index_tail THEN index_tail - index_head
                 ELSE num_frames + index_tail - index_head
  BY <1>0, <1>1 DEF ReadyIsWindow, ClearedSlot, Slots, Count
<1>4. \A i \in Slots : frames'[i].ready <=> (frames[i].ready /\ i # index_head)
  BY <1>0 DEF ClearedSlot
<1>5. \A i \in Slots : InWindow(i)' <=> (InWindow(i) /\ i # index_head)
  BY <1>1, <1>2, <1>3 DEF InWindow, Slots
<1>6. \A i \in Slots : frames'[i].ready <=> InWindow(i)'
  BY <1>0, <1>4, <1>5 DEF ReadyIsWindow, ClearedSlot
<1>7. /\ index_head' \in Slots
      /\ index_head' = index_tail' => ~frames'[index_head'].ready
  BY <1>1, <1>2, <1>3, <1>6 DEF InWindow, Slots
<1>8. Count' = IF index_head' < index_tail' THEN index_tail' - index_head'
               ELSE IF index_tail' < index_head'
                      THEN num_frames' + index_tail' - index_head'
               ELSE IF frames'[index_head'].ready THEN num_frames' ELSE 0
  BY <1>1, <1>2, <1>3, <1>7 DEF Slots
<1> QED
  BY <1>2, <1>6, <1>8 DEF ReadyIsWindow, Slots
-----------------------------------------------------------------------------
\* A step that leaves slots and history alone keeps what is said of them.
LEMMA Unmoved ==
  ASSUME IndInv, TypeOK', UNCHANGED <<slotVars, histVars>>,
         queue' = queue \/ queue' # "live",
         seen' = seen
  PROVE  IndInv'
BY DEF IndInv, slotVars, histVars, ReadyIsWindow, WaitingFramesIntact,
       HeldFramesLatest, HeldFramesIntact, SeenFramesStay, Slots, InWindow,
       Latest, Count

\* An accepted push keeps every invariant.
LEMMA PushStep ==
  ASSUME IndInv, TypeOK', NEW n, AcceptedPush(n)
  PROVE  IndInv'
<1> USE DEF IndInv
<1>1. ReadyIsWindow'
  BY PushWindow
<1>2. /\ Slots' = Slots /\ num_frames' = num_frames /\ num_frames \in Nat
      /\ Len(log') = Len(log) + 1 /\ Len(log) \in Nat /\ log \in Seq(Nat)
      /\ n \in Nat /\ log' = Append(log, n) /\ index_tail \in Slots
      /\ queue = "live" /\ held' = held /\ seen' = seen
      /\ popped' = popped /\ popped \in Nat
  BY PushLatest DEF AcceptedPush, Slots, TypeOK
<1>3. WaitingFramesIntact'
  <2> SUFFICES ASSUME NEW i \in Slots, frames'[i].ready
               PROVE  /\ frames'[i].frame = Latest(i)'
                      /\ frames'[i].data # 0
                      /\ frames'[i].valid_size = log'[Latest(i)']
    BY <1>2 DEF WaitingFramesIntact
  <2>1. CASE i = index_tail
    <3>1. Latest(i)' = Len(log) + 1
      BY <2>1, PushLatest
    <3>2. log'[Len(log) + 1] = n
      BY <1>2
    <3> QED
      BY <2>1, <3>1, <3>2 DEF AcceptedPush
  <2>2. CASE i # index_tail
    <3>1. Latest(i)' = Latest(i) /\ frames'[i] = frames[i]
      BY <2>2, PushLatest DEF AcceptedPush
    <3>2. Latest(i) \in popped + 1 .. Len(log)
      BY <1>2, <3>1, LatestOfReady
    <3>3. log'[Latest(i)] = log[Latest(i)]
      BY <1>2, <3>2
    <3> QED
      BY <1>2, <3>1, <3>3 DEF WaitingFramesIntact
  <2> QED
    BY <2>1, <2>2
<1>4. HeldFramesLatest'
  <2> SUFFICES ASSUME NEW c \in Consumers, held[c].frame # 0,
                      Len(log) + 1 < held[c].frame + num_frames
               PROVE  held[c].slot \in Slots /\ Latest(held[c].slot)' = held[c].frame
    BY <1>2 DEF HeldFramesLatest
  <2>1. held[c].frame \in Nat
    BY DEF TypeOK
  <2>2. held[c].slot \in Slots /\ Latest(held[c].slot) = held[c].frame
    BY <1>2, <2>1 DEF HeldFramesLatest
  <2>3. held[c].slot # index_tail
    BY <1>2, <2>1, <2>2, PushLatest
  <2>4. \A i \in Slots : i = held[c].slot => Latest(i)' = held[c].frame
    BY <2>2, <2>3, PushLatest
  <2> QED
    BY <1>2, <2>2, <2>4 DEF Latest
<1>5. HeldFramesIntact'
  <2> SUFFICES ASSUME NEW c \in Consumers, held[c].frame # 0,
                      Len(log) + 1 < held[c].frame + num_frames - 1
               PROVE  /\ held[c].slot \in Slots
                      /\ frames'[held[c].slot].data = held[c].data
                      /\ frames'[held[c].slot].frame = held[c].frame
    BY <1>2 DEF HeldFramesIntact
  <2>1. held[c].frame \in Nat
    BY DEF TypeOK
  <2>2. held[c].slot \in Slots /\ Latest(held[c].slot) = held[c].frame
    BY <1>2, <2>1 DEF HeldFramesLatest
  <2>3. held[c].slot # index_tail
    BY <1>2, <2>1, <2>2, PushLatest
  <2>4. /\ frames[held[c].slot].data = held[c].data
        /\ frames[held[c].slot].frame = held[c].frame
    BY <1>2, <2>1 DEF HeldFramesIntact
  <2> QED
    BY <2>2, <2>3, <2>4 DEF AcceptedPush
<1>6. SeenFramesStay'
  <2>1. Count' = Count + 1 /\ Count \in Int
    BY <1>2 DEF Count
  <2> SUFFICES ASSUME NEW c \in Consumers, Consumers = {c}
               PROVE  seen[c] <= Count'
    BY <1>2 DEF SeenFramesStay
  <2>2. seen[c] \in Nat /\ seen[c] <= Count
    BY <1>2 DEF TypeOK, SeenFramesStay
  <2> QED
    BY <2>1, <2>2
<1> QED
  BY <1>1, <1>3, <1>4, <1>5, <1>6

\* A push whose malloc fails keeps them too: the slot it breaks is empty, and
\* the consumer that still holds its block has had its num_frames - 1 pushes.
LEMMA GrowFailsStep ==
  ASSUME IndInv, TypeOK', NEW n \in FrameSizes, PushGrowFails(n)
  PROVE  IndInv'
<1> USE DEF IndInv
<1>1. /\ queue = "live" /\ queue' = queue /\ index_tail \in Slots
      /\ UNCHANGED <<num_frames, index_head, index_tail, log, popped, held, seen>>
      /\ Slots' = Slots /\ num_frames \in Nat /\ Len(log) \in Nat
      /\ ~frames[index_tail].ready
  BY DEF PushGrowFails, histVars, TypeOK, Slots
<1>2. /\ ~frames'[index_tail].ready
      /\ \A i \in Slots : i # index_tail => frames'[i] = frames[i]
  BY <1>1 DEF PushGrowFails, TypeOK, Slot
<1>3. \A i \in Slots : /\ InWindow(i)' = InWindow(i)
                       /\ Latest(i)' = Latest(i)
                       /\ frames'[i].ready <=> frames[i].ready
  BY <1>1, <1>2 DEF InWindow, Latest, Count
<1>4. ReadyIsWindow'
  <2>1. Count' = Count /\ index_head \in Slots
    BY <1>1 DEF Count, TypeOK
  <2> QED
    BY <1>1, <1>3, <2>1 DEF ReadyIsWindow
<1>5. WaitingFramesIntact'
  BY <1>1, <1>2, <1>3 DEF WaitingFramesIntact
<1>6. HeldFramesLatest'
  BY <1>1, <1>3 DEF HeldFramesLatest
<1>7. HeldFramesIntact'
  <2> SUFFICES ASSUME NEW c \in Consumers, held[c].frame # 0,
                      Len(log) < held[c].frame + num_frames - 1
               PROVE  /\ held[c].slot \in Slots
                      /\ frames'[held[c].slot].data = held[c].data
                      /\ frames'[held[c].slot].frame = held[c].frame
    BY <1>1 DEF HeldFramesIntact
  <2>1. held[c].frame \in Nat
    BY DEF TypeOK
  <2>2. held[c].slot \in Slots /\ Latest(held[c].slot) = held[c].frame
    BY <1>1, <2>1 DEF HeldFramesLatest
  <2>3. Latest(index_tail) = Len(log) + 1 - num_frames
    BY <1>1 DEF Latest, Slots
  <2>4. held[c].slot # index_tail
    BY <1>1, <2>1, <2>2, <2>3
  <2> QED
    BY <1>1, <1>2, <2>2, <2>4 DEF HeldFramesIntact
<1>8. SeenFramesStay'
  BY <1>1 DEF SeenFramesStay, Count
<1> QED
  BY <1>4, <1>5, <1>6, <1>7, <1>8

\* A pop keeps every invariant: the block it hands out holds the frame.
LEMMA PopStep ==
  ASSUME IndInv, TypeOK', NEW c \in Consumers, PopOk(c)
  PROVE  IndInv'
<1> USE DEF IndInv
<1>0. ClearedSlot
  BY PopShape
<1>1. ReadyIsWindow'
  BY PopWindow
<1>2. /\ Slots' = Slots /\ num_frames' = num_frames /\ num_frames \in Nat
      /\ log' = log /\ Len(log) \in Nat /\ index_tail' = index_tail
      /\ index_head \in Slots /\ popped' = popped + 1 /\ popped \in Nat
      /\ queue = "live"
  BY DEF PopOk, Slots, TypeOK
<1>3. \A i : Latest(i)' = Latest(i)
  BY <1>2 DEF Latest
<1>4. \A i \in Slots : /\ frames'[i].ready => frames'[i] = frames[i]
                       /\ frames'[i].data = frames[i].data
                       /\ frames'[i].frame = frames[i].frame
  BY <1>0 DEF ClearedSlot
<1>5. WaitingFramesIntact'
  BY <1>2, <1>3, <1>4 DEF WaitingFramesIntact
<1>6. \A d \in Consumers :
        held'[d] = IF d = c THEN [slot  |-> index_head,
                                  data  |-> frames[index_head].data,
                                  frame |-> frames[index_head].frame]
                            ELSE held[d]
  BY DEF PopOk, TypeOK
<1>7. Latest(index_head) = frames[index_head].frame
  BY <1>0, <1>2 DEF ClearedSlot, WaitingFramesIntact
<1>8. HeldFramesLatest'
  <2> SUFFICES ASSUME NEW d \in Consumers, held'[d].frame # 0,
                      Len(log) < held'[d].frame + num_frames
               PROVE  held'[d].slot \in Slots /\ Latest(held'[d].slot) = held'[d].frame
    BY <1>2, <1>3 DEF HeldFramesLatest, Latest
  <2>1. CASE d = c
    BY <1>2, <1>6, <1>7, <2>1
  <2>2. CASE d # c
    BY <1>2, <1>6, <2>2 DEF HeldFramesLatest
  <2> QED
    BY <2>1, <2>2
<1>9. HeldFramesIntact'
  <2> SUFFICES ASSUME NEW d \in Consumers, held'[d].frame # 0,
                      Len(log) < held'[d].frame + num_frames - 1
               PROVE  /\ held'[d].slot \in Slots
                      /\ frames'[held'[d].slot].data = held'[d].data
                      /\ frames'[held'[d].slot].frame = held'[d].frame
    BY <1>2 DEF HeldFramesIntact
  <2>1. CASE d = c
    BY <1>2, <1>4, <1>6, <2>1
  <2>2. CASE d # c
    BY <1>2, <1>4, <1>6, <2>2 DEF HeldFramesIntact
  <2> QED
    BY <2>1, <2>2
<1>10. SeenFramesStay'
  <2> SUFFICES ASSUME NEW d \in Consumers, Consumers = {d}
               PROVE  seen'[d] <= Count'
    BY DEF SeenFramesStay
  <2>1. d = c
    OBVIOUS
  <2>2. seen[c] \in Nat /\ seen'[c] = IF seen[c] = 0 THEN 0 ELSE seen[c] - 1
    BY DEF PopOk, TypeOK
  <2>3. seen[c] <= Count /\ Count' = Count - 1 /\ Count \in Int
    BY <1>2, <2>1 DEF SeenFramesStay, Count
  <2>4. Count >= 1
    <3>1. Latest(index_head) \in popped + 1 .. Len(log)
      BY <1>0, <1>2, LatestOfReady DEF ClearedSlot
    <3> QED
      BY <1>2, <3>1 DEF Count
  <2> QED
    BY <2>1, <2>2, <2>3, <2>4
<1> QED
  BY <1>1, <1>5, <1>8, <1>9, <1>10

\* The reported count, from the window.
LEMMA CountFromWindow ==
  ASSUME TypeOK, ReadyIsWindow, queue = "live"
  PROVE  NumValid = (IF Count = num_frames THEN 0 ELSE Count) /\ NumValid <= Count
<1>1. /\ index_head \in Slots /\ index_tail \in Slots /\ num_frames \in Nat
      /\ Count \in Int
  BY DEF TypeOK, Count
<1> QED
  BY <1>1 DEF ReadyIsWindow, NumValid, Slots

\* The conjunction of the invariants is inductive.
LEMMA Inductive == IndInv /\ [Next]_vars => IndInv'
<1> SUFFICES ASSUME IndInv, [Next]_vars
             PROVE  IndInv'
  OBVIOUS
<1>0. TypeOK'
  BY TypeStep DEF IndInv
<1>1. ASSUME NEW n \in QueueSizes, CreateOk(n)
      PROVE  IndInv'
  <2>1. /\ num_frames' = n /\ n \in Nat \ {0} /\ index_head' = 0 /\ index_tail' = 0
        /\ log' = <<>> /\ popped' = 0 /\ queue' = "live"
        /\ \A i \in Slots' : ~frames'[i].ready
        /\ \A c \in Consumers : held'[c].frame = 0 /\ seen'[c] = 0
    BY <1>1, FramesQueueAssumption DEF CreateOk, EmptySlot, NotHeld, Slots
  <2>2. Count' = 0 /\ 0 \in Slots'
    BY <2>1 DEF Count, Slots
  <2>3. ReadyIsWindow'
    BY <2>1, <2>2 DEF ReadyIsWindow, InWindow
  <2> QED
    BY <1>0, <2>1, <2>2, <2>3
       DEF IndInv, WaitingFramesIntact, HeldFramesLatest, HeldFramesIntact,
           SeenFramesStay
<1>2. CASE CreateFails
  BY <1>0, <1>2, Unmoved DEF CreateFails
<1>3. ASSUME NEW buf \in Bufs, NEW n \in FrameSizes, PushRefused(buf, n)
      PROVE  IndInv'
  BY <1>0, <1>3, Unmoved DEF PushRefused
<1>4. ASSUME NEW n \in FrameSizes, PushReuses(n) \/ PushGrows(n)
      PROVE  IndInv'
  <2>1. AcceptedPush(n)
    BY <1>4, PushShape DEF IndInv
  <2> QED
    BY <1>0, <2>1, PushStep
<1>5. ASSUME NEW n \in FrameSizes, PushToNull(n)
      PROVE  IndInv'
  BY <1>0, <1>5, Unmoved DEF PushToNull
<1>6. ASSUME NEW n \in FrameSizes, PushGrowFails(n)
      PROVE  IndInv'
  BY <1>0, <1>6, GrowFailsStep
<1>7. ASSUME NEW c \in Consumers, PopOk(c)
      PROVE  IndInv'
  BY <1>0, <1>7, PopStep
<1>8. CASE PopRefused
  BY <1>0, <1>8, Unmoved DEF PopRefused
<1>9. ASSUME NEW c \in Consumers, frames_queue_get_num_valid_frames(c)
      PROVE  IndInv'
  <2>1. SeenFramesStay'
    <3> SUFFICES ASSUME NEW d \in Consumers, Consumers = {d}
                 PROVE  seen'[d] <= Count'
      BY DEF SeenFramesStay
    <3>1. seen'[d] = NumValid
      BY <1>9 DEF frames_queue_get_num_valid_frames, IndInv, TypeOK
    <3>2. Count' = Count
      BY <1>9 DEF frames_queue_get_num_valid_frames, histVars, Count
    <3>3. NumValid <= Count
      BY <1>9, CountFromWindow DEF frames_queue_get_num_valid_frames, IndInv
    <3> QED
      BY <3>1, <3>2, <3>3
  <2> QED
    BY <1>0, <1>9, <2>1
       DEF frames_queue_get_num_valid_frames, IndInv, slotVars, histVars,
           ReadyIsWindow, WaitingFramesIntact, HeldFramesLatest,
           HeldFramesIntact, Slots, InWindow, Latest, Count
<1>10. CASE frames_queue_destroy
  BY <1>0, <1>10, Unmoved DEF frames_queue_destroy
<1>11. CASE UNCHANGED vars
  BY <1>0, <1>11, Unmoved DEF vars, slotVars, histVars
<1> QED
  BY <1>1, <1>2, <1>3, <1>4, <1>5, <1>6, <1>7, <1>8, <1>9, <1>10, <1>11
     DEF Next

\* Spec keeps the inductive invariant.
THEOREM Invariance == Spec => []IndInv
<1>1. Init => IndInv
  <2>1. Init => TypeOK
    BY DEF Init, TypeOK, Slots, Slot, NotHeld
  <2> QED
    BY <2>1 DEF Init, IndInv, ReadyIsWindow, WaitingFramesIntact,
                HeldFramesLatest, HeldFramesIntact, SeenFramesStay
<1> QED
  BY <1>1, Inductive, PTL DEF Spec

\* The ready flags and the indices always agree.
THEOREM FlagsAgreeWithIndices == Spec => []ReadyIsWindow
<1>1. IndInv => ReadyIsWindow
  BY DEF IndInv
<1> QED
  BY <1>1, Invariance, PTL

\* A frame that waits in the queue is never overwritten.
THEOREM WaitingFramesStay == Spec => []WaitingFramesIntact
<1>1. IndInv => WaitingFramesIntact
  BY DEF IndInv
<1> QED
  BY <1>1, Invariance, PTL

\* A popped frame survives num_frames - 2 further pushes.
THEOREM HeldFramesSurvive == Spec => []HeldFramesIntact
<1>1. IndInv => HeldFramesIntact
  BY DEF IndInv
<1> QED
  BY <1>1, Invariance, PTL

\* A single consumer can rely on the count it was given.
THEOREM SeenFramesPoppable == Spec => []SeenFramesStay
<1>1. IndInv => SeenFramesStay
  BY DEF IndInv
<1> QED
  BY <1>1, Invariance, PTL

\* The reported count is wrong in a full queue and only there.
THEOREM CountCorrectUnlessFull == Spec => []CountExactUnlessFull
<1>1. IndInv => CountExactUnlessFull
  BY CountFromWindow DEF IndInv, CountExactUnlessFull
<1> QED
  BY <1>1, Invariance, PTL

\* The ready flag at the head tells whether a frame waits, and the one at the tail
\* whether there is no room, also where head and tail meet.
FlagsTellEmptyAndFull ==
  queue = "live" =>
    /\ frames[index_head].ready <=> popped < Len(log)
    /\ frames[index_tail].ready <=> Len(log) - popped = num_frames

\* frames_queue_pop fails only on an empty queue, so that a polling consumer gets
\* on whenever a frame waits, and frames_queue_push is refused for lack of room
\* only by a queue of num_frames frames.
THEOREM RefusedOnlyIfEmptyOrFull == Spec => []FlagsTellEmptyAndFull
<1>1. IndInv => FlagsTellEmptyAndFull
  <2> SUFFICES ASSUME IndInv, queue = "live"
               PROVE  /\ frames[index_head].ready <=> popped < Len(log)
                      /\ frames[index_tail].ready <=> Len(log) - popped = num_frames
    BY DEF FlagsTellEmptyAndFull
  <2>1. /\ index_head \in Slots /\ index_tail \in Slots /\ num_frames \in Nat
        /\ popped \in Nat /\ Len(log) \in Nat
    BY DEF IndInv, TypeOK
  <2>2. /\ frames[index_head].ready <=> InWindow(index_head)
        /\ frames[index_tail].ready <=> InWindow(index_tail)
    BY <2>1 DEF IndInv, ReadyIsWindow
  <2>3. Count = IF index_head < index_tail THEN index_tail - index_head
                ELSE IF index_tail < index_head THEN num_frames + index_tail - index_head
                ELSE IF frames[index_head].ready THEN num_frames ELSE 0
    BY DEF IndInv, ReadyIsWindow
  <2>4. InWindow(index_head) <=> Count > 0
    BY <2>1, <2>3 DEF InWindow, Slots
  <2>5. InWindow(index_tail) <=> Count = num_frames
    <3>1. CASE index_head = index_tail
      BY <2>1, <2>2, <2>3, <3>1 DEF InWindow, Slots
    <3>2. CASE index_head # index_tail
      BY <2>1, <2>3, <3>2 DEF InWindow, Slots
    <3> QED
      BY <3>1, <3>2
  <2> QED
    BY <2>1, <2>2, <2>4, <2>5 DEF Count
<1> QED
  BY <1>1, Invariance, PTL
-----------------------------------------------------------------------------
\* The frames queue implements the bounded first-in-first-out queue of
\* FrameFifo: an accepted push is Accept, a successful pop is Deliver, create
\* is Open, everything else a stutter.
THEOREM ImplementsFifo == Spec => FifoSpec
<1>1. Init => Fifo!Init
  BY DEF Init, Fifo!Init, Fifo!NoFrame
<1>2. IndInv /\ [Next]_vars => [Fifo!Next]_(Fifo!vars)
  <2> SUFFICES ASSUME IndInv, [Next]_vars
               PROVE  [Fifo!Next]_(Fifo!vars)
    OBVIOUS
  <2> USE DEF IndInv
  <2>1. ASSUME NEW n \in QueueSizes, CreateOk(n)
        PROVE  Fifo!Open
    BY <2>1, FramesQueueAssumption DEF CreateOk, Fifo!Open, Fifo!NoFrame
  <2>2. ASSUME NEW n \in FrameSizes, PushReuses(n) \/ PushGrows(n)
        PROVE  Fifo!Accept
    <3>1. AcceptedPush(n)
      BY <2>2, PushShape
    <3>2. Len(log) - popped < num_frames
      <4>1. /\ index_head \in Slots /\ index_tail \in Slots /\ num_frames \in Nat
            /\ popped \in Nat /\ Len(log) \in Nat
        BY <3>1 DEF AcceptedPush, TypeOK
      <4>2. index_head = index_tail => ~frames[index_head].ready
        BY <3>1 DEF AcceptedPush
      <4> QED
        BY <3>1, <4>1, <4>2 DEF AcceptedPush, ReadyIsWindow, Count, Slots
    <3>3. /\ log' = Append(log, n) /\ log \in Seq(Nat) /\ n \in Nat
          /\ UNCHANGED <<num_frames, popped, got>>
      BY <3>1 DEF AcceptedPush, TypeOK
    <3>4. Len(log') = Len(log) + 1 /\ log'[Len(log) + 1] = n
      BY <3>3
    <3> QED
      BY <3>2, <3>3, <3>4 DEF Fifo!Accept
  <2>3. ASSUME NEW c \in Consumers, PopOk(c)
        PROVE  Fifo!Deliver
    <3>1. queue = "live" /\ frames[index_head].ready /\ index_head \in Slots
      BY <2>3 DEF PopOk, TypeOK
    <3>2. Latest(index_head) = popped + 1
      BY <3>1, HeadIsNext
    <3>3. popped < Len(log)
      <4>1. Latest(index_head) \in popped + 1 .. Len(log)
        BY <3>1, LatestOfReady
      <4> QED
        BY <3>2, <4>1 DEF TypeOK
    <3>4. /\ frames[index_head].frame = popped + 1
          /\ frames[index_head].valid_size = log[popped + 1]
      BY <3>1, <3>2 DEF WaitingFramesIntact
    <3> QED
      BY <2>3, <3>3, <3>4 DEF PopOk, Fifo!Deliver
  <2>4. CASE UNCHANGED <<slotVars, histVars>>
    BY <2>4 DEF slotVars, histVars, Fifo!vars
  <2>5. ASSUME NEW n \in FrameSizes, PushGrowFails(n)
        PROVE  UNCHANGED Fifo!vars
    BY <2>5 DEF PushGrowFails, histVars, Fifo!vars
  <2>6. CASE UNCHANGED vars
    BY <2>6 DEF vars, Fifo!vars
  <2> QED
    BY <2>1, <2>2, <2>3, <2>4, <2>5, <2>6
       DEF Next, Fifo!Next, CreateFails, PushRefused, PushToNull, PopRefused,
           frames_queue_get_num_valid_frames, frames_queue_destroy
<1> QED
  BY <1>1, <1>2, Invariance, PTL DEF Spec, FifoSpec, Fifo!Spec
=============================================================================

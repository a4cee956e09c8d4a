----------------------------- MODULE FrameFifo -----------------------------
(***************************************************************************)
(* What the frames queue promises its users: a bounded first-in-first-out  *)
(* queue of frames of different sizes.  Frames are numbered in the order   *)
(* they are accepted; every delivery hands over the next frame, once, with *)
(* the size it was accepted with.                                          *)
(***************************************************************************)
EXTENDS Integers, Sequences

VARIABLES
  cap,    \* number of frames the queue can hold
  log,    \* log[k] is the size of the k-th accepted frame
  taken,  \* number of frames delivered
  got     \* number and size of the last delivered frame

vars == <<cap, log, taken, got>>

NoFrame == [frame |-> 0, size |-> 0]

Init == cap = 0 /\ log = <<>> /\ taken = 0 /\ got = NoFrame

Open ==
  /\ cap' \in Nat \ {0}
  /\ log' = <<>> /\ taken' = 0 /\ got' = NoFrame

Accept ==
  /\ Len(log) - taken < cap
  /\ Len(log') = Len(log) + 1
  /\ log' = Append(log, log'[Len(log) + 1])
  /\ UNCHANGED <<cap, taken, got>>

Deliver ==
  /\ taken < Len(log)
  /\ taken' = taken + 1
  /\ got' = [frame |-> taken + 1, size |-> log[taken + 1]]
  /\ UNCHANGED <<cap, log>>

Next == Open \/ Accept \/ Deliver

Spec == Init /\ [][Next]_vars
=============================================================================

----------------------------- MODULE ByteStream -----------------------------
(***************************************************************************)
(* What the ring buffer promises its users: a bounded stream of bytes,     *)
(* numbered in the order they are sent.  A delivery hands over a run of    *)
(* consecutive bytes that starts at the first byte still owed; nothing is  *)
(* lost, overtaken or altered.  The last byte of a delivery may stay owed, *)
(* in which case the next delivery starts with it again.  One byte of the  *)
(* capacity is never used, and the newest byte is never delivered.         *)
(***************************************************************************)
EXTENDS Integers, Sequences

VARIABLES
  cap,   \* capacity in bytes
  sent,  \* number of bytes sent
  next,  \* first byte still owed to the receiver
  got    \* the bytes of the last delivery

vars == <<cap, sent, next, got>>

Init == cap = 0 /\ sent = 0 /\ next = 1 /\ got = <<>>

Open ==
  /\ cap' \in Nat \ {0}
  /\ sent' = 0 /\ next' = 1 /\ got' = <<>>

Send ==
  /\ sent' > sent
  /\ sent' - next + 1 < cap
  /\ UNCHANGED <<cap, next, got>>

Deliver ==
  \E n \in 1 .. sent - next :
    /\ got' = [i \in 1 .. n |-> next + i - 1]
    /\ next' \in {next + n, next + n - 1}
    /\ UNCHANGED <<cap, sent>>

Next == Open \/ Send \/ Deliver

Spec == Init /\ [][Next]_vars
=============================================================================

-------------------------- MODULE MCBlockThreshold --------------------------
(* Instances of BlockThreshold for TLC. *)
EXTENDS BlockThreshold, TLC
=============================================================================

--------------------------- MODULE MCFramesQueue ---------------------------
(* Instances of FramesQueue for TLC. *)
EXTENDS FramesQueue, TLC
=============================================================================

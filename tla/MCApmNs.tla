------------------------------ MODULE MCApmNs ------------------------------
(* Instances of ApmNs for TLC: mono, stereo, no channel and a count below zero. *)
EXTENDS ApmNs

ChannelCounts == {-1, 0, 1, 2}
=============================================================================

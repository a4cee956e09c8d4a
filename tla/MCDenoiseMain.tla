--------------------------- MODULE MCDenoiseMain ---------------------------
(* Instances of DenoiseMain for TLC. *)
EXTENDS DenoiseMain, TLC
=============================================================================

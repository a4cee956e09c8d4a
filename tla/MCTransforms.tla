---------------------------- MODULE MCTransforms ----------------------------
(***************************************************************************)
(* The two libraries that compute with samples, KissFft and HighPass.      *)
(* They share nothing, so a behaviour uses one of them and leaves the      *)
(* other as it began.                                                      *)
(*                                                                         *)
(* The sizes use between them every butterfly, on its own and behind       *)
(* others, and three generic radices in one stage; the filter has the      *)
(* sizes of the code, and streams longer than its line.                    *)
(***************************************************************************)
EXTENDS KissFft, HighPass

MCSizes == {1, 2, 3, 4, 5, 6, 7, 8, 9, 10, 12, 14, 15, 16, 18, 20, 21, 30}
MCRealSizes == {2, 4, 6, 7, 8, 10, 12, 14, 16, 18, 20, 24, 28, 30, 32}
MCStrides == {1, 2}
MCLengths == {0, 1, 2, 3, 7, 16}

MCInit == Init /\ FilterInit
MCNext ==
  \/ stream = 0 /\ Next /\ UNCHANGED filterVars
  \/ Fresh /\ FilterNext /\ UNCHANGED vars
MCSpec == MCInit /\ [][MCNext]_<<vars, filterVars>>
=============================================================================

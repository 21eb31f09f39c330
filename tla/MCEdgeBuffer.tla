---------------------------- MODULE MCEdgeBuffer ----------------------------
(***************************************************************************)
(* Instances of EdgeBuffer for TLC.  Tasks are interchangeable: none of the *)
(* safety properties names one.                                            *)
(***************************************************************************)
EXTENDS EdgeBuffer, TLC

TaskSymmetry == Permutations(Tasks)
=============================================================================

---------------------------- MODULE MCTaskQueue ----------------------------
(***************************************************************************)
(* Instances of TaskQueue for TLC.                                         *)
(***************************************************************************)
EXTENDS TaskQueue, TLC

MCSymmetry ==
    Permutations(Tasks) \cup Permutations(Workers) \cup Permutations(Slots)
=============================================================================

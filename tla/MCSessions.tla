----------------------------- MODULE MCSessions -----------------------------
(***************************************************************************)
(* Instances of Sessions for TLC.  Browsers, calls and session keys are    *)
(* interchangeable, and every property is symmetric in them.               *)
(***************************************************************************)
EXTENDS Sessions, TLC

MCSymmetry ==
    Permutations(Browsers) \cup Permutations(Requests)
        \cup Permutations(Sessions)
=============================================================================

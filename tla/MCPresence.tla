----------------------------- MODULE MCPresence -----------------------------
(***************************************************************************)
(* Instances of Presence: two tabs, on one process or on two.              *)
(***************************************************************************)
EXTENDS Presence

CONSTANTS s1, s2, p1, p2

TwoSockets == {s1, s2}
TwoProcs == {p1, p2}
=============================================================================

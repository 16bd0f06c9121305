----------------------------- MODULE MCHistory ------------------------------
(***************************************************************************)
(* An instance of History: three messages, pages of one, and clocks that    *)
(* give two messages the same time or an older one a later time.            *)
(***************************************************************************)
EXTENDS History

CONSTANTS r1, r2, r3

ThreeRequests == {r1, r2, r3}
ThreeMessages == 1..3
=============================================================================

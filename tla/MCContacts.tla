----------------------------- MODULE MCContacts -----------------------------
(***************************************************************************)
(* Instances of Contacts for TLC.  The two people, the requests and the    *)
(* keys are interchangeable, and every property is symmetric in them.      *)
(***************************************************************************)
EXTENDS Contacts, TLC

MCSymmetry ==
    Permutations(Users) \cup Permutations(Requests)
        \cup Permutations(Rows) \cup Permutations(Asks)
=============================================================================

---------------------------- MODULE MCRateLimit ----------------------------
(***************************************************************************)
(* An instance of RateLimit: a client that asks less often than the limit   *)
(* allows, and goes on asking.                                              *)
(***************************************************************************)
EXTENDS RateLimit

SomeRequests == 1..4
=============================================================================

---------------------------- MODULE MCCacheAside ----------------------------
(***************************************************************************)
(* An instance of CacheAside: every key, every endpoint, two requests that  *)
(* read while one writes.                                                   *)
(***************************************************************************)
EXTENDS CacheAside

CONSTANTS r1, r2, w1

TwoReaders == {r1, r2}
OneWriter == {w1}
AllKeys == {"room", "members", "catalog", "friends", "user"}
AllOps == DOMAIN Writes
=============================================================================

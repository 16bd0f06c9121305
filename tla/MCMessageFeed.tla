--------------------------- MODULE MCMessageFeed ---------------------------
(***************************************************************************)
(* Instances of MessageFeed: which messages are the member's own, edited   *)
(* or deleted, and how often the page is opened.                           *)
(***************************************************************************)
EXTENDS MessageFeed

CONSTANTS m1, m2

One == {m1}
Both == {m1, m2}
Nobody == {}
OneVisit == {1}
TwoVisits == {1, 2}
=============================================================================

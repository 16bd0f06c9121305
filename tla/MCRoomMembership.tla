-------------------------- MODULE MCRoomMembership --------------------------
(***************************************************************************)
(* Instances of RoomMembership for TLC.  Users, requests and rows are      *)
(* interchangeable and every property is symmetric in them.                *)
(***************************************************************************)
EXTENDS RoomMembership, TLC

MCSymmetry ==
    Permutations(Users) \cup Permutations(Requests) \cup Permutations(Rows)

\* What decides whether a banned user can come back by an invitation.
InviteOps == {"create", "ban", "invite", "accept"}
=============================================================================

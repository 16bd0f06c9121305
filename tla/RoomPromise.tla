---------------------------- MODULE RoomPromise ----------------------------
(***************************************************************************)
(* What one chat room promises its users (README.md, "Chat Rooms"), as if   *)
(* each request were carried out at one instant.  RoomMembership, where     *)
(* requests interleave between their queries, implements it.  Bans are left *)
(* out: a banned user may come back, so there is nothing to promise about   *)
(* them but that somebody leaves.                                           *)
(***************************************************************************)
CONSTANTS Users, None

VARIABLES
    accounts,  \* the users that have an account
    status,    \* the room is absent, live or deleted
    owner, private,
    members, admins,
    invited    \* who was ever sent an invitation

roomVars == <<accounts, status, owner, private, members, admins, invited>>

Init ==
    /\ accounts = Users
    /\ status = "absent" /\ owner = None /\ private = FALSE
    /\ members = {} /\ admins = {} /\ invited = {}

\* The creator is the owner, for good, and the first administrator.
Create(u) ==
    /\ status = "absent" /\ u \in accounts
    /\ status' = "live" /\ owner' = u /\ private' \in BOOLEAN
    /\ members' = {u} /\ admins' = {u}
    /\ UNCHANGED <<accounts, invited>>

Invite(u) ==
    /\ status = "live" /\ u \in accounts
    /\ invited' = invited \cup {u}
    /\ UNCHANGED <<accounts, status, owner, private, members, admins>>

\* By joining or by accepting an invitation; nobody enters as administrator.
Enter(u) ==
    /\ status = "live" /\ u \in accounts \ members
    /\ private => u \in invited
    /\ members' = members \cup {u}
    /\ UNCHANGED <<accounts, status, owner, private, admins, invited>>

\* By leaving, or by being removed or banned; never the owner.
Depart(u) ==
    /\ u \in members \ {owner}
    /\ members' = members \ {u} /\ admins' = admins \ {u}
    /\ UNCHANGED <<accounts, status, owner, private, invited>>

Promote(u) ==
    /\ u \in members
    /\ admins' = admins \cup {u}
    /\ UNCHANGED <<accounts, status, owner, private, members, invited>>

Demote(u) ==
    /\ u \in admins \ {owner}
    /\ admins' = admins \ {u}
    /\ UNCHANGED <<accounts, status, owner, private, members, invited>>

Empty ==
    /\ status = "live" /\ status' = "deleted"
    /\ members' = {} /\ admins' = {}

Delete == Empty /\ UNCHANGED <<accounts, owner, private, invited>>

\* A room goes with the account of its owner.
CloseAccount(u) ==
    /\ u \in accounts /\ accounts' = accounts \ {u}
    /\ IF status = "live" /\ owner = u THEN Empty
       ELSE /\ members' = members \ {u} /\ admins' = admins \ {u}
            /\ UNCHANGED status
    /\ UNCHANGED <<owner, private, invited>>

Next ==
    \/ Delete
    \/ \E u \in Users :
          \/ Create(u) \/ Invite(u) \/ Enter(u) \/ Depart(u)
          \/ Promote(u) \/ Demote(u) \/ CloseAccount(u)

Spec == Init /\ [][Next]_roomVars
=============================================================================

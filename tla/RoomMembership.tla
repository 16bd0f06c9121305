--------------------------- MODULE RoomMembership ---------------------------
(***************************************************************************)
(* The membership of one chat room: who is a member, an administrator,     *)
(* banned or invited (backend/app/api/v1/endpoints/rooms.py), together     *)
(* with account deletion (endpoints/auth.py), which reaches the same       *)
(* tables through the ORM cascades of models/models.py.                    *)
(*                                                                         *)
(* The API runs as several asyncio processes on one PostgreSQL database at *)
(* READ COMMITTED, so any two handlers interleave at every `await          *)
(* db.execute' and `await db.commit'.  A handler is a request that moves   *)
(* from query to query (field pc names the query it does next) and keeps   *)
(* what it has read; its writes reach the tables in its last step, where   *)
(* flush and commit are adjacent.  An early return or an exception before  *)
(* the first query has answered anything useful changes nothing and is a   *)
(* stuttering step; a later one ends the request.                          *)
(*                                                                         *)
(* The session check of get_current_user is part of a handler's first      *)
(* step.  Row identities (UUID primary keys) matter, because the ORM       *)
(* updates and deletes a loaded row by primary key: a row that was deleted *)
(* and inserted again is another row.                                      *)
(***************************************************************************)
EXTENDS Naturals, FiniteSets

CONSTANTS
    Users,      \* people that can have an account
    Requests,   \* handler slots: the bound on concurrent requests
    Rows,       \* primary keys: one per request is enough
    Ops,        \* the endpoints in use
    None        \* no row, no user

AllOps == {"create", "join", "leave", "delete_room", "ban", "unban", "grant",
           "revoke", "invite", "accept", "delete_account"}

ASSUME NoneAssumption == None \notin Rows /\ None \notin Users
ASSUME OpsAssumption  == Ops \subseteq AllOps

VARIABLES
    accounts,   \* table users
    room,       \* table rooms, the one room: status, owner_id, visibility
    member,     \* table room_members: the row of each user, or None
    admin,      \* room_members.is_admin
    ban,        \* table room_bans: the row of each user, or None
    invite,     \* table room_invitations: the row of each invitee, or None
    inviter,    \* room_invitations.inviter_id
    invited,    \* history: the users that were ever sent an invitation
    req         \* the requests in flight

tables == <<accounts, room, member, admin, ban, invite, inviter, invited>>
vars == <<tables, req>>

Row == Rows \cup {None}
RoomRecord == [status : {"absent", "live", "deleted"},
               owner : Users \cup {None}, private : BOOLEAN]
Steps == {"room", "caller", "target", "invitee", "ban", "invite", "owned",
          "commit"}
InFlight == [op : AllOps, pc : Steps, by : Users, on : Users,
             row : Row,       \* the room_members row the session has loaded
             adm : BOOLEAN,   \* is_admin as loaded with that row
             rec : Row]       \* the ban or invitation the session has loaded

Idle == [op |-> "none", pc |-> "idle", by |-> None, on |-> None,
         row |-> None, adm |-> FALSE, rec |-> None]
Request == InFlight \cup {Idle}

NoRows == [u \in Users |-> None]

Init ==
    /\ accounts = Users
    /\ room = [status |-> "absent", owner |-> None, private |-> FALSE]
    /\ member = NoRows
    /\ admin = [u \in Users |-> FALSE]
    /\ ban = NoRows
    /\ invite = NoRows
    /\ inviter = NoRows
    /\ invited = {}
    /\ req = [r \in Requests |-> Idle]

-----------------------------------------------------------------------------
(* The database. *)

Live == room.status = "live"

\* Keys for a new room_members row, and for a new ban or invitation: no
\* session still holds them, for uuid4 never repeats.  A key names a row
\* together with the row's user and table.
FreshMemberKeys == {x \in Rows : \A r \in Requests : req[r].row # x}
FreshKeys == {x \in Rows : \A r \in Requests : req[r].rec # x}

\* Error: no foreign key ties the row to the account of its user.
MayInsert_NoForeignKey(t, u) == Live /\ t[u] = None

\* The foreign keys to rooms and users and the unique constraint on
\* (room, user) accept a new row of table t for u.
MayInsert(t, u) == Live /\ u \in accounts /\ t[u] = None

\* Insert a room_members row, never an administrator's.
InsertMember(u) ==
    \E x \in FreshMemberKeys :
        /\ member' = [member EXCEPT ![u] = x]
        /\ admin' = [admin EXCEPT ![u] = FALSE]

\* DELETE FROM room_members by primary key: nothing when the row is gone.
DeleteMember(u, x) ==
    IF x # None /\ member[u] = x
    THEN /\ member' = [member EXCEPT ![u] = None]
         /\ admin' = [admin EXCEPT ![u] = FALSE]
    ELSE UNCHANGED <<member, admin>>

\* Error: the update is keyed by the user and not by the loaded row.
SetAdmin_ByUser(u, x, loaded, value) ==
    admin' = IF loaded # value /\ member[u] # None
             THEN [admin EXCEPT ![u] = value]
             ELSE admin

\* Error: revoking writes NULL, which the migrated column accepts.
SetAdmin_Null(u, x, loaded, value) ==
    admin' = IF loaded # value /\ member[u] = x
             THEN [admin EXCEPT ![u] = IF value THEN TRUE ELSE None]
             ELSE admin

\* UPDATE room_members SET is_admin by primary key.  The ORM writes nothing
\* when the loaded value already is the new one, and a row that is gone fails
\* the request (StaleDataError).
SetAdmin(u, x, loaded, value) ==
    admin' = IF loaded # value /\ member[u] = x
             THEN [admin EXCEPT ![u] = value]
             ELSE admin

\* DELETE FROM rooms, with its ORM and database cascades.
DropRoom ==
    /\ room' = [room EXCEPT !.status = "deleted"]
    /\ member' = NoRows
    /\ admin' = [u \in Users |-> FALSE]
    /\ ban' = NoRows
    /\ invite' = NoRows
    /\ inviter' = NoRows

-----------------------------------------------------------------------------
(* Moving a request through its handler. *)

At(r, op, pc) == req[r].op = op /\ req[r].pc = pc

Open(r, op, by, on, pc, row, rec) ==
    /\ op \in Ops
    /\ req[r] = Idle
    /\ by \in accounts
    /\ req' = [req EXCEPT ![r] =
                 [op |-> op, pc |-> pc, by |-> by, on |-> on,
                  row |-> row, adm |-> row # None /\ admin[by], rec |-> rec]]
    /\ UNCHANGED tables

Advance(r, pc) == req' = [req EXCEPT ![r].pc = pc]
Finish(r) == req' = [req EXCEPT ![r] = Idle]

\* A check between two queries: go on to the query pc, or raise.
Check(r, ok, pc) ==
    /\ IF ok THEN Advance(r, pc) ELSE Finish(r)
    /\ UNCHANGED tables

\* _get_member(db, room, u).  A row the session holds already keeps the
\* attributes it was first loaded with.
LoadMember(r, u, pc) ==
    LET held == u = req[r].by /\ member[u] = req[r].row
    IN req' = [req EXCEPT ![r] =
                [req[r] EXCEPT
                    !.pc = pc, !.row = member[u],
                    !.adm = IF held THEN req[r].adm ELSE admin[u]]]

-----------------------------------------------------------------------------
\* POST /rooms.  The creator becomes owner and first administrator in one
\* transaction.  The name is unique: of two racing creators one fails.
CreateCheckName(r, u) ==
    /\ room.status = "absent"
    /\ Open(r, "create", u, u, "commit", None, None)

CreateCommit(r) ==
    LET u == req[r].by
    IN /\ At(r, "create", "commit")
       /\ Finish(r)
       /\ IF room.status = "absent" /\ u \in accounts
          THEN \E private \in BOOLEAN, x \in FreshMemberKeys :
                 /\ room' = [status |-> "live", owner |-> u,
                             private |-> private]
                 /\ member' = [member EXCEPT ![u] = x]
                 /\ admin' = [admin EXCEPT ![u] = TRUE]
          ELSE UNCHANGED <<room, member, admin>>
       /\ UNCHANGED <<accounts, ban, invite, inviter, invited>>

\* POST /rooms/{id}/join
JoinReadRoom(r, u) ==
    /\ Live /\ ~room.private
    /\ Open(r, "join", u, u, "ban", None, None)

JoinCheckBan(r) ==
    /\ At(r, "join", "ban")
    /\ Check(r, ban[req[r].by] = None, "target")

JoinCheckMember(r) ==
    /\ At(r, "join", "target")
    /\ Check(r, member[req[r].by] = None, "commit")

JoinCommit(r) ==
    LET u == req[r].by
    IN /\ At(r, "join", "commit")
       /\ Finish(r)
       /\ IF MayInsert(member, u) THEN InsertMember(u)
                                  ELSE UNCHANGED <<member, admin>>
       /\ UNCHANGED <<accounts, room, ban, invite, inviter, invited>>

\* Error: the owner may leave.
LeaveReadRoom_Anybody(r, u) ==
    /\ Live
    /\ Open(r, "leave", u, u, "target", None, None)

\* POST /rooms/{id}/leave
LeaveReadRoom(r, u) ==
    /\ Live /\ room.owner # u
    /\ Open(r, "leave", u, u, "target", None, None)

LeaveLoadMember(r) ==
    LET u == req[r].by
    IN /\ At(r, "leave", "target")
       /\ IF member[u] = None THEN Finish(r) ELSE LoadMember(r, u, "commit")
       /\ UNCHANGED tables

LeaveCommit(r) ==
    /\ At(r, "leave", "commit")
    /\ Finish(r)
    /\ DeleteMember(req[r].by, req[r].row)
    /\ UNCHANGED <<accounts, room, ban, invite, inviter, invited>>

\* DELETE /rooms/{id}
DeleteRoomRead(r, u) ==
    /\ Live /\ room.owner = u
    /\ Open(r, "delete_room", u, u, "commit", None, None)

DeleteRoomCommit(r) ==
    /\ At(r, "delete_room", "commit")
    /\ Finish(r)
    /\ IF Live THEN DropRoom
               ELSE UNCHANGED <<room, member, admin, ban, invite, inviter>>
    /\ UNCHANGED <<accounts, invited>>

\* POST /rooms/{id}/members/{uid}/ban, and .../remove, which calls it
RequireAdmin(r, op, u, v, pc) ==
    /\ member[u] # None /\ admin[u]
    /\ Open(r, op, u, v, pc, member[u], None)

BanRequireAdmin(r, u, v) == RequireAdmin(r, "ban", u, v, "room")

\* Error: the owner may be banned.
BanCheckOwner_Skipped(r) ==
    /\ At(r, "ban", "room")
    /\ Check(r, Live, "ban")

\* A deleted room reads as null: the attribute access fails.
BanCheckOwner(r) ==
    /\ At(r, "ban", "room")
    /\ Check(r, Live /\ req[r].on # room.owner, "ban")

BanLoadBan(r) ==
    /\ At(r, "ban", "ban")
    /\ req' = [req EXCEPT ![r].pc = "target", ![r].rec = ban[req[r].on]]
    /\ UNCHANGED tables

BanLoadMember(r) ==
    /\ At(r, "ban", "target")
    /\ LoadMember(r, req[r].on, "commit")
    /\ UNCHANGED tables

\* A failing insert of the ban rolls the removal back with it.
BanCommit(r) ==
    LET v == req[r].on
        inserts == req[r].rec = None
        fails == inserts /\ ~(MayInsert(ban, v) /\ req[r].by \in accounts)
    IN /\ At(r, "ban", "commit")
       /\ Finish(r)
       /\ IF fails THEN UNCHANGED <<member, admin, ban>>
          ELSE /\ DeleteMember(v, req[r].row)
               /\ IF inserts
                  THEN \E x \in FreshKeys : ban' = [ban EXCEPT ![v] = x]
                  ELSE UNCHANGED ban
       /\ UNCHANGED <<accounts, room, invite, inviter, invited>>

\* DELETE /rooms/{id}/members/{uid}/ban
UnbanRequireAdmin(r, u, v) == RequireAdmin(r, "unban", u, v, "ban")

UnbanLoadBan(r) ==
    LET v == req[r].on
    IN /\ At(r, "unban", "ban")
       /\ req' = [req EXCEPT ![r] =
                    IF ban[v] = None THEN Idle
                    ELSE [req[r] EXCEPT !.pc = "commit", !.rec = ban[v]]]
       /\ UNCHANGED tables

UnbanCommit(r) ==
    LET v == req[r].on
    IN /\ At(r, "unban", "commit")
       /\ Finish(r)
       /\ ban' = [ban EXCEPT ![v] = IF @ = req[r].rec THEN None ELSE @]
       /\ UNCHANGED <<accounts, room, member, admin, invite, inviter, invited>>

\* POST and DELETE /rooms/{id}/members/{uid}/admin
GrantReadRoom(r, u, v) ==
    /\ Live /\ room.owner = u
    /\ Open(r, "grant", u, v, "target", None, None)

RevokeReadRoom(r, u, v) ==
    /\ Live
    /\ Open(r, "revoke", u, v, "caller", None, None)

RevokeCheckCaller(r) ==
    LET u == req[r].by
    IN /\ At(r, "revoke", "caller")
       /\ IF member[u] # None /\ admin[u] /\ req[r].on # room.owner
          THEN LoadMember(r, u, "target")
          ELSE Finish(r)
       /\ UNCHANGED tables

RoleLoadMember(r) ==
    LET v == req[r].on
    IN /\ At(r, "grant", "target") \/ At(r, "revoke", "target")
       /\ IF member[v] = None THEN Finish(r) ELSE LoadMember(r, v, "commit")
       /\ UNCHANGED tables

RoleCommit(r) ==
    /\ At(r, "grant", "commit") \/ At(r, "revoke", "commit")
    /\ Finish(r)
    /\ SetAdmin(req[r].on, req[r].row, req[r].adm, req[r].op = "grant")
    /\ UNCHANGED <<accounts, room, member, ban, invite, inviter, invited>>

\* POST /rooms/{id}/invite: any member may invite.
InviteCheckMember(r, u, v) ==
    /\ member[u] # None
    /\ Open(r, "invite", u, v, "invitee", member[u], None)

InviteFindUser(r) ==
    /\ At(r, "invite", "invitee")
    /\ Check(r, req[r].on \in accounts, "target")

InviteCheckTarget(r) ==
    /\ At(r, "invite", "target")
    /\ Check(r, member[req[r].on] = None, "ban")

InviteCheckBan(r) ==
    /\ At(r, "invite", "ban")
    /\ Check(r, ban[req[r].on] = None, "invite")

InviteCheckInvite(r) ==
    /\ At(r, "invite", "invite")
    /\ Check(r, invite[req[r].on] = None, "commit")

InviteCommit(r) ==
    LET u == req[r].by
        v == req[r].on
    IN /\ At(r, "invite", "commit")
       /\ Finish(r)
       /\ IF MayInsert(invite, v) /\ u \in accounts
          THEN /\ \E x \in FreshKeys : invite' = [invite EXCEPT ![v] = x]
               /\ inviter' = [inviter EXCEPT ![v] = u]
               /\ invited' = invited \cup {v}
          ELSE UNCHANGED <<invite, inviter, invited>>
       /\ UNCHANGED <<accounts, room, member, admin, ban>>

\* POST /rooms/{id}/accept-invite.  Bans are not looked up.  A member
\* insert that fails leaves the invitation in place.
\* Error: the invitation is not required.
AcceptLoadInvite_Any(r, u) ==
    /\ Live
    /\ Open(r, "accept", u, u, "target", None, invite[u])

AcceptLoadInvite(r, u) ==
    /\ invite[u] # None
    /\ Open(r, "accept", u, u, "target", None, invite[u])

AcceptLoadMember(r) ==
    /\ At(r, "accept", "target")
    /\ LoadMember(r, req[r].by, "commit")
    /\ UNCHANGED tables

AcceptCommit(r) ==
    LET u == req[r].by
        inserts == req[r].row = None
        consumes == invite[u] = req[r].rec /\ req[r].rec # None
    IN /\ At(r, "accept", "commit")
       /\ Finish(r)
       /\ IF inserts /\ ~MayInsert(member, u)
          THEN UNCHANGED <<member, admin, invite, inviter>>
          ELSE /\ IF inserts THEN InsertMember(u)
                             ELSE UNCHANGED <<member, admin>>
               /\ IF consumes
                  THEN /\ invite' = [invite EXCEPT ![u] = None]
                       /\ inviter' = [inviter EXCEPT ![u] = None]
                  ELSE UNCHANGED <<invite, inviter>>
       /\ UNCHANGED <<accounts, room, ban, invited>>

\* DELETE /auth/account.  The relationship User.owned_rooms has no
\* cascade, so the flush tries to null the owner_id of the rooms it loads,
\* which is not nullable: an owner's request fails.  A room created after
\* that load goes with its owner by the foreign key's own cascade.
DeleteAccountRead(r, u) == Open(r, "delete_account", u, u, "owned", None, None)

DeleteAccountLoadRooms(r) ==
    /\ At(r, "delete_account", "owned")
    /\ Check(r, ~(Live /\ room.owner = req[r].by), "commit")

DeleteAccountCommit(r) ==
    LET u == req[r].by
        sent == {v \in Users : v = u \/ inviter[v] = u}
    IN /\ At(r, "delete_account", "commit")
       /\ Finish(r)
       /\ accounts' = accounts \ {u}
       /\ IF Live /\ room.owner = u /\ u \in accounts THEN DropRoom
          ELSE /\ member' = [member EXCEPT ![u] = None]
               /\ admin' = [admin EXCEPT ![u] = FALSE]
               /\ ban' = [ban EXCEPT ![u] = None]
               /\ invite' = [v \in Users |-> IF v \in sent THEN None
                                                          ELSE invite[v]]
               /\ inviter' = [v \in Users |-> IF v \in sent THEN None
                                                           ELSE inviter[v]]
               /\ UNCHANGED room
       /\ UNCHANGED invited

-----------------------------------------------------------------------------
(* The handlers, each with the steps it may be in. *)

CreateRoom(r) ==
    (\E u \in Users : CreateCheckName(r, u)) \/ CreateCommit(r)

JoinRoom(r) ==
    \/ \E u \in Users : JoinReadRoom(r, u)
    \/ JoinCheckBan(r) \/ JoinCheckMember(r) \/ JoinCommit(r)

LeaveRoom(r) ==
    \/ \E u \in Users : LeaveReadRoom(r, u)
    \/ LeaveLoadMember(r) \/ LeaveCommit(r)

DeleteRoom(r) ==
    (\E u \in Users : DeleteRoomRead(r, u)) \/ DeleteRoomCommit(r)

BanMember(r) ==
    \/ \E u, v \in Users : BanRequireAdmin(r, u, v)
    \/ BanCheckOwner(r) \/ BanLoadBan(r) \/ BanLoadMember(r) \/ BanCommit(r)

UnbanMember(r) ==
    \/ \E u, v \in Users : UnbanRequireAdmin(r, u, v)
    \/ UnbanLoadBan(r) \/ UnbanCommit(r)

ChangeRole(r) ==
    \/ \E u, v \in Users : GrantReadRoom(r, u, v) \/ RevokeReadRoom(r, u, v)
    \/ RevokeCheckCaller(r) \/ RoleLoadMember(r) \/ RoleCommit(r)

InviteUser(r) ==
    \/ \E u, v \in Users : InviteCheckMember(r, u, v)
    \/ InviteFindUser(r) \/ InviteCheckTarget(r) \/ InviteCheckBan(r)
    \/ InviteCheckInvite(r) \/ InviteCommit(r)

AcceptInvite(r) ==
    \/ \E u \in Users : AcceptLoadInvite(r, u)
    \/ AcceptLoadMember(r) \/ AcceptCommit(r)

DeleteAccount(r) ==
    \/ \E u \in Users : DeleteAccountRead(r, u)
    \/ DeleteAccountLoadRooms(r) \/ DeleteAccountCommit(r)

Next ==
    \E r \in Requests :
        \/ CreateRoom(r) \/ JoinRoom(r) \/ LeaveRoom(r) \/ DeleteRoom(r)
        \/ BanMember(r) \/ UnbanMember(r) \/ ChangeRole(r)
        \/ InviteUser(r) \/ AcceptInvite(r) \/ DeleteAccount(r)

Spec == Init /\ [][Next]_vars

-----------------------------------------------------------------------------
(* Properties. *)

TypeOK ==
    /\ accounts \subseteq Users
    /\ room \in RoomRecord
    /\ member \in [Users -> Row]
    /\ admin \in [Users -> BOOLEAN]
    /\ ban \in [Users -> Row]
    /\ invite \in [Users -> Row]
    /\ inviter \in [Users -> Users \cup {None}]
    /\ invited \subseteq Users
    /\ req \in [Requests -> Request]

\* The owner of a live room has an account, is a member of the room and is
\* its administrator, whatever bans, revocations, departures and account
\* deletions are in flight (rooms.py: ban_member, revoke_admin, leave_room;
\* auth.py: delete_account).
OwnerIsAdmin ==
    Live => /\ room.owner \in accounts
            /\ member[room.owner] # None
            /\ admin[room.owner]

\* No membership, ban or invitation outlives its room or the account of its
\* user, although handlers insert rows after checks made long before.
NoOrphanRows ==
    \A u \in Users :
        /\ ~Live \/ u \notin accounts =>
              member[u] = None /\ ban[u] = None /\ invite[u] = None
        /\ admin[u] => member[u] # None
        /\ invite[u] # None => inviter[u] \in accounts

\* Nobody but the owner gets into a private room without having been invited
\* (join_room refuses private rooms, accept_invite needs an invitation).
PrivateByInvitation ==
    Live /\ room.private =>
        \A u \in Users : member[u] # None => u = room.owner \/ u \in invited

\* An administrator flag is raised only on the very row that a grant of the
\* owner has loaded: somebody removed and joining again while the grant is in
\* flight does not inherit it (grant_admin).
GrantReachesLoadedRow ==
    [][Live => \A u \in Users :
          admin'[u] /\ ~admin[u] =>
              \E r \in Requests : /\ req[r].op = "grant" /\ req[r].on = u
                                  /\ req[r].by = room.owner
                                  /\ req[r].row = member[u]]_vars

\* README.md:226: banned users cannot rejoin until the ban is removed.
BannedCannotRejoin ==
    [][\A u \in Users :
          member[u] = None /\ member'[u] # None => ban[u] = None]_vars

\* Each step of each request, whatever others do between its steps, is one
\* that RoomPromise allows at that instant or changes nothing it speaks of:
\* the owner and the visibility never change, nobody enters a private room
\* uninvited or as administrator, the owner never leaves or is demoted, and
\* nothing happens in a room that is gone (all handlers of rooms.py that
\* write, and delete_account).
Promise == INSTANCE RoomPromise WITH
    status <- room.status, owner <- room.owner, private <- room.private,
    members <- {u \in Users : member[u] # None},
    admins <- {u \in Users : admin[u]}
Implements == Promise!Spec
=============================================================================

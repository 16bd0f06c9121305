------------------------ MODULE RoomMembershipProofs ------------------------
(***************************************************************************)
(* Theorems about RoomMembership for any sets of users, requests and rows  *)
(* and any set of endpoints in use: first its types, then the safety       *)
(* properties, each strengthened with what the requests in flight may      *)
(* still do to the tables.                                                 *)
(***************************************************************************)
EXTENDS RoomMembership, TLAPS

-----------------------------------------------------------------------------
(* Moving a request keeps the table of requests well typed.                *)

RequestsOK == req \in [Requests -> Request]

\* A request at some step of an endpoint is in flight.
LEMMA AtInFlight ==
    ASSUME TypeOK, NEW r \in Requests, NEW op \in AllOps, NEW pc, At(r, op, pc)
    PROVE  /\ req[r] \in InFlight
           /\ req[r].by \in Users /\ req[r].on \in Users
           /\ req[r].row \in Row /\ req[r].rec \in Row /\ req[r].adm \in BOOLEAN
<1>1. req[r] # Idle
  BY DEF At, Idle, AllOps
<1>2. req[r] \in InFlight
  BY <1>1 DEF TypeOK, Request
<1>. QED
  BY <1>2 DEF InFlight

\* A request that ends leaves its slot idle.
LEMMA FinishType ==
    ASSUME RequestsOK, NEW r \in Requests, Finish(r)
    PROVE  RequestsOK'
BY DEF RequestsOK, Finish, Request

\* A request whose check succeeds goes on, and otherwise ends.
LEMMA CheckType ==
    ASSUME TypeOK, NEW r \in Requests, NEW op \in AllOps, NEW at, At(r, op, at),
           NEW pc \in Steps, NEW ok, Check(r, ok, pc)
    PROVE  TypeOK'
<1>1. CASE Finish(r)
  BY <1>1, FinishType DEF Check, TypeOK, RequestsOK, tables
<1>2. CASE Advance(r, pc)
  <2>1. [req[r] EXCEPT !.pc = pc] \in InFlight
    BY AtInFlight DEF InFlight
  <2>2. req' = [req EXCEPT ![r] = [req[r] EXCEPT !.pc = pc]]
    BY <1>2 DEF Advance
  <2>. QED
    BY <2>1, <2>2 DEF Check, TypeOK, Request, tables
<1>. QED
  BY <1>1, <1>2 DEF Check

\* A request that starts holds rows of the tables.
LEMMA OpenType ==
    ASSUME TypeOK, NEW r \in Requests, NEW op, NEW by \in Users,
           NEW on \in Users, NEW pc \in Steps, NEW row \in Row, NEW rec \in Row,
           Open(r, op, by, on, pc, row, rec)
    PROVE  TypeOK'
<1>. DEFINE new == [op |-> op, pc |-> pc, by |-> by, on |-> on, row |-> row,
                    adm |-> row # None /\ admin[by], rec |-> rec]
<1>1. (row # None /\ admin[by]) \in BOOLEAN
  BY DEF TypeOK
<1>2. new \in InFlight
  BY <1>1, OpsAssumption DEF Open, InFlight
<1>. QED
  BY <1>2 DEF Open, TypeOK, Request, tables

\* Loading a membership stores a row of the table and its flag.
LEMMA LoadMemberType ==
    ASSUME TypeOK, NEW r \in Requests, NEW op \in AllOps, NEW at, At(r, op, at),
           NEW u \in Users, NEW pc \in Steps, LoadMember(r, u, pc)
    PROVE  RequestsOK'
<1>. DEFINE held == u = req[r].by /\ member[u] = req[r].row
            adm == IF held THEN req[r].adm ELSE admin[u]
            new == [req[r] EXCEPT !.pc = pc, !.row = member[u], !.adm = adm]
<1>1. req[r] \in InFlight /\ member[u] \in Row /\ admin[u] \in BOOLEAN
  BY AtInFlight DEF TypeOK
<1>2. adm \in BOOLEAN
  BY <1>1 DEF InFlight
<1>. HIDE DEF adm
<1>3. new \in Request
  BY <1>1, <1>2 DEF InFlight, Request
<1>4. req' = [req EXCEPT ![r] = new]
  BY DEF LoadMember, adm
<1>. QED
  BY <1>3, <1>4 DEF TypeOK, RequestsOK

-----------------------------------------------------------------------------
(* Type correctness, one handler at a time.                                *)

\* Inserting and deleting a membership keep the table well typed.
LEMMA MemberTableType ==
    ASSUME TypeOK, NEW u,
           InsertMember(u) \/ \E x : DeleteMember(u, x)
    PROVE  member' \in [Users -> Row] /\ admin' \in [Users -> BOOLEAN]
<1>1. member \in [Users -> Row] /\ admin \in [Users -> BOOLEAN]
  BY DEF TypeOK
<1>2. CASE InsertMember(u)
  <2>1. PICK x \in Rows : /\ member' = [member EXCEPT ![u] = x]
                          /\ admin' = [admin EXCEPT ![u] = FALSE]
    BY <1>2 DEF InsertMember, FreshMemberKeys
  <2>. QED
    BY <1>1, <2>1 DEF Row
<1>3. ASSUME NEW x, DeleteMember(u, x)
      PROVE  member' \in [Users -> Row] /\ admin' \in [Users -> BOOLEAN]
  BY <1>1, <1>3 DEF DeleteMember, Row
<1>. QED
  BY <1>2, <1>3

\* The end of the room empties its tables.
LEMMA DropRoomType ==
    ASSUME TypeOK, DropRoom
    PROVE  /\ room' \in RoomRecord
           /\ member' \in [Users -> Row] /\ admin' \in [Users -> BOOLEAN]
           /\ ban' \in [Users -> Row] /\ invite' \in [Users -> Row]
           /\ inviter' \in [Users -> Users \cup {None}]
BY DEF TypeOK, DropRoom, NoRows, RoomRecord, Row

LEMMA StepsListed ==
    /\ "room" \in Steps /\ "caller" \in Steps /\ "target" \in Steps
    /\ "invitee" \in Steps /\ "ban" \in Steps /\ "invite" \in Steps
    /\ "owned" \in Steps /\ "commit" \in Steps
BY DEF Steps

LEMMA CreateRoomType ==
    ASSUME TypeOK, NEW r \in Requests, CreateRoom(r)
    PROVE  TypeOK'
<1>1. ASSUME NEW u \in Users, CreateCheckName(r, u) PROVE TypeOK'
  BY <1>1, OpenType, StepsListed DEF CreateCheckName, Row
<1>2. CASE CreateCommit(r)
  <2>1. RequestsOK'
    BY <1>2, FinishType DEF CreateCommit, TypeOK, RequestsOK
  <2>2. CASE room.status = "absent" /\ req[r].by \in accounts
    <3>. DEFINE u == req[r].by
    <3>1. u \in Users
      BY <2>2 DEF TypeOK
    <3>2. PICK private \in BOOLEAN, x \in FreshMemberKeys :
            /\ room' = [status |-> "live", owner |-> u, private |-> private]
            /\ member' = [member EXCEPT ![u] = x]
            /\ admin' = [admin EXCEPT ![u] = TRUE]
      BY <1>2, <2>2 DEF CreateCommit
    <3>3. room' \in RoomRecord
      BY <3>1, <3>2 DEF RoomRecord
    <3>4. member' \in [Users -> Row] /\ admin' \in [Users -> BOOLEAN]
      BY <3>2 DEF TypeOK, FreshMemberKeys, Row
    <3>. QED
      BY <1>2, <2>1, <3>3, <3>4 DEF CreateCommit, TypeOK, RequestsOK
  <2>3. CASE ~(room.status = "absent" /\ req[r].by \in accounts)
    BY <1>2, <2>1, <2>3 DEF CreateCommit, TypeOK, RequestsOK
  <2>. QED
    BY <2>2, <2>3
<1>. QED
  BY <1>1, <1>2 DEF CreateRoom

LEMMA JoinRoomType ==
    ASSUME TypeOK, NEW r \in Requests, JoinRoom(r)
    PROVE  TypeOK'
<1>1. ASSUME NEW u \in Users, JoinReadRoom(r, u) PROVE TypeOK'
  BY <1>1, OpenType, StepsListed DEF JoinReadRoom, Row
<1>2. CASE JoinCheckBan(r)
  BY <1>2, CheckType, StepsListed DEF JoinCheckBan, AllOps
<1>3. CASE JoinCheckMember(r)
  BY <1>3, CheckType, StepsListed DEF JoinCheckMember, AllOps
<1>4. CASE JoinCommit(r)
  <2>1. RequestsOK'
    BY <1>4, FinishType DEF JoinCommit, TypeOK, RequestsOK
  <2>2. member' \in [Users -> Row] /\ admin' \in [Users -> BOOLEAN]
    BY <1>4, MemberTableType DEF JoinCommit, TypeOK
  <2>. QED
    BY <1>4, <2>1, <2>2 DEF JoinCommit, TypeOK, RequestsOK
<1>. QED
  BY <1>1, <1>2, <1>3, <1>4 DEF JoinRoom

LEMMA LeaveRoomType ==
    ASSUME TypeOK, NEW r \in Requests, LeaveRoom(r)
    PROVE  TypeOK'
<1>1. ASSUME NEW u \in Users, LeaveReadRoom(r, u) PROVE TypeOK'
  BY <1>1, OpenType, StepsListed DEF LeaveReadRoom, Row
<1>2. CASE LeaveLoadMember(r)
  <2>1. CASE member[req[r].by] = None
    BY <1>2, <2>1, FinishType
       DEF LeaveLoadMember, TypeOK, RequestsOK, tables
  <2>2. CASE member[req[r].by] # None
    <3>1. RequestsOK'
      BY <1>2, <2>2, LoadMemberType, AtInFlight, StepsListed
         DEF LeaveLoadMember, AllOps
    <3>. QED
      BY <1>2, <3>1 DEF LeaveLoadMember, TypeOK, RequestsOK, tables
  <2>. QED
    BY <2>1, <2>2
<1>3. CASE LeaveCommit(r)
  <2>1. RequestsOK'
    BY <1>3, FinishType DEF LeaveCommit, TypeOK, RequestsOK
  <2>2. member' \in [Users -> Row] /\ admin' \in [Users -> BOOLEAN]
    BY <1>3, MemberTableType DEF LeaveCommit
  <2>. QED
    BY <1>3, <2>1, <2>2 DEF LeaveCommit, TypeOK, RequestsOK
<1>. QED
  BY <1>1, <1>2, <1>3 DEF LeaveRoom

LEMMA DeleteRoomType ==
    ASSUME TypeOK, NEW r \in Requests, DeleteRoom(r)
    PROVE  TypeOK'
<1>1. ASSUME NEW u \in Users, DeleteRoomRead(r, u) PROVE TypeOK'
  BY <1>1, OpenType, StepsListed DEF DeleteRoomRead, Row
<1>2. CASE DeleteRoomCommit(r)
  <2>1. RequestsOK'
    BY <1>2, FinishType DEF DeleteRoomCommit, TypeOK, RequestsOK
  <2>2. CASE Live
    BY <1>2, <2>1, <2>2, DropRoomType DEF DeleteRoomCommit, TypeOK, RequestsOK
  <2>3. CASE ~Live
    BY <1>2, <2>1, <2>3 DEF DeleteRoomCommit, TypeOK, RequestsOK
  <2>. QED
    BY <2>2, <2>3
<1>. QED
  BY <1>1, <1>2 DEF DeleteRoom

LEMMA BanMemberType ==
    ASSUME TypeOK, NEW r \in Requests, BanMember(r)
    PROVE  TypeOK'
<1>1. ASSUME NEW u \in Users, NEW v \in Users, BanRequireAdmin(r, u, v)
      PROVE  TypeOK'
  BY <1>1, OpenType, StepsListed DEF BanRequireAdmin, RequireAdmin, Row, TypeOK
<1>2. CASE BanCheckOwner(r)
  BY <1>2, CheckType, StepsListed DEF BanCheckOwner, AllOps
<1>3. CASE BanLoadBan(r)
  <2>. DEFINE new == [req[r] EXCEPT !.pc = "target", !.rec = ban[req[r].on]]
  <2>1. req[r] \in InFlight /\ ban[req[r].on] \in Row
    BY <1>3, AtInFlight DEF BanLoadBan, AllOps, TypeOK
  <2>2. new \in Request
    BY <2>1, StepsListed DEF InFlight, Request
  <2>3. req' = [req EXCEPT ![r] = new]
    BY <1>3 DEF BanLoadBan
  <2>. QED
    BY <1>3, <2>2, <2>3 DEF BanLoadBan, TypeOK, tables
<1>4. CASE BanLoadMember(r)
  <2>1. RequestsOK'
    BY <1>4, LoadMemberType, AtInFlight, StepsListed DEF BanLoadMember, AllOps
  <2>. QED
    BY <1>4, <2>1 DEF BanLoadMember, TypeOK, RequestsOK, tables
<1>5. CASE BanCommit(r)
  <2>1. RequestsOK'
    BY <1>5, FinishType DEF BanCommit, TypeOK, RequestsOK
  <2>2. member' \in [Users -> Row] /\ admin' \in [Users -> BOOLEAN]
    BY <1>5, MemberTableType DEF BanCommit, TypeOK
  <2>3. ban' \in [Users -> Row]
    BY <1>5 DEF BanCommit, TypeOK, FreshKeys, Row
  <2>. QED
    BY <1>5, <2>1, <2>2, <2>3 DEF BanCommit, TypeOK, RequestsOK
<1>. QED
  BY <1>1, <1>2, <1>3, <1>4, <1>5 DEF BanMember

LEMMA UnbanMemberType ==
    ASSUME TypeOK, NEW r \in Requests, UnbanMember(r)
    PROVE  TypeOK'
<1>1. ASSUME NEW u \in Users, NEW v \in Users, UnbanRequireAdmin(r, u, v)
      PROVE  TypeOK'
  BY <1>1, OpenType, StepsListed DEF UnbanRequireAdmin, RequireAdmin, Row, TypeOK
<1>2. CASE UnbanLoadBan(r)
  <2>. DEFINE v == req[r].on
              new == [req[r] EXCEPT !.pc = "commit", !.rec = ban[v]]
  <2>1. req[r] \in InFlight /\ ban[v] \in Row
    BY <1>2, AtInFlight DEF UnbanLoadBan, AllOps, TypeOK
  <2>2. new \in InFlight
    BY <2>1, StepsListed DEF InFlight
  <2>3. req' = [req EXCEPT ![r] = IF ban[v] = None THEN Idle ELSE new]
    BY <1>2 DEF UnbanLoadBan
  <2>. QED
    BY <1>2, <2>2, <2>3 DEF UnbanLoadBan, TypeOK, Request, tables
<1>3. CASE UnbanCommit(r)
  <2>1. RequestsOK'
    BY <1>3, FinishType DEF UnbanCommit, TypeOK, RequestsOK
  <2>2. ban' \in [Users -> Row]
    BY <1>3 DEF UnbanCommit, TypeOK, Row
  <2>. QED
    BY <1>3, <2>1, <2>2 DEF UnbanCommit, TypeOK, RequestsOK
<1>. QED
  BY <1>1, <1>2, <1>3 DEF UnbanMember

LEMMA ChangeRoleType ==
    ASSUME TypeOK, NEW r \in Requests, ChangeRole(r)
    PROVE  TypeOK'
<1>1. ASSUME NEW u \in Users, NEW v \in Users, GrantReadRoom(r, u, v)
      PROVE  TypeOK'
  BY <1>1, OpenType, StepsListed DEF GrantReadRoom, Row
<1>2. ASSUME NEW u \in Users, NEW v \in Users, RevokeReadRoom(r, u, v)
      PROVE  TypeOK'
  BY <1>2, OpenType, StepsListed DEF RevokeReadRoom, Row
<1>3. CASE RevokeCheckCaller(r)
  <2>1. RequestsOK'
    BY <1>3, LoadMemberType, FinishType, AtInFlight, StepsListed
       DEF RevokeCheckCaller, AllOps, TypeOK, RequestsOK
  <2>. QED
    BY <1>3, <2>1 DEF RevokeCheckCaller, TypeOK, RequestsOK, tables
<1>4. CASE RoleLoadMember(r)
  <2>1. RequestsOK'
    BY <1>4, LoadMemberType, FinishType, AtInFlight, StepsListed
       DEF RoleLoadMember, AllOps, TypeOK, RequestsOK
  <2>. QED
    BY <1>4, <2>1 DEF RoleLoadMember, TypeOK, RequestsOK, tables
<1>5. CASE RoleCommit(r)
  <2>1. RequestsOK'
    BY <1>5, FinishType DEF RoleCommit, TypeOK, RequestsOK
  <2>2. admin' \in [Users -> BOOLEAN]
    BY <1>5 DEF RoleCommit, SetAdmin, TypeOK
  <2>. QED
    BY <1>5, <2>1, <2>2 DEF RoleCommit, TypeOK, RequestsOK
<1>. QED
  BY <1>1, <1>2, <1>3, <1>4, <1>5 DEF ChangeRole

LEMMA InviteUserType ==
    ASSUME TypeOK, NEW r \in Requests, InviteUser(r)
    PROVE  TypeOK'
<1>1. ASSUME NEW u \in Users, NEW v \in Users, InviteCheckMember(r, u, v)
      PROVE  TypeOK'
  BY <1>1, OpenType, StepsListed DEF InviteCheckMember, Row, TypeOK
<1>2. CASE InviteFindUser(r)
  BY <1>2, CheckType, StepsListed DEF InviteFindUser, AllOps
<1>3. CASE InviteCheckTarget(r)
  BY <1>3, CheckType, StepsListed DEF InviteCheckTarget, AllOps
<1>4. CASE InviteCheckBan(r)
  BY <1>4, CheckType, StepsListed DEF InviteCheckBan, AllOps
<1>5. CASE InviteCheckInvite(r)
  BY <1>5, CheckType, StepsListed DEF InviteCheckInvite, AllOps
<1>6. CASE InviteCommit(r)
  <2>1. RequestsOK'
    BY <1>6, FinishType DEF InviteCommit, TypeOK, RequestsOK
  <2>2. req[r].by \in Users /\ req[r].on \in Users
    BY <1>6, AtInFlight DEF InviteCommit, AllOps
  <2>3. /\ invite' \in [Users -> Row] /\ inviter' \in [Users -> Users \cup {None}]
        /\ invited' \subseteq Users
    BY <1>6, <2>2 DEF InviteCommit, TypeOK, FreshKeys, Row
  <2>. QED
    BY <1>6, <2>1, <2>3 DEF InviteCommit, TypeOK, RequestsOK
<1>. QED
  BY <1>1, <1>2, <1>3, <1>4, <1>5, <1>6 DEF InviteUser

LEMMA AcceptInviteType ==
    ASSUME TypeOK, NEW r \in Requests, AcceptInvite(r)
    PROVE  TypeOK'
<1>1. ASSUME NEW u \in Users, AcceptLoadInvite(r, u) PROVE TypeOK'
  BY <1>1, OpenType, StepsListed DEF AcceptLoadInvite, Row, TypeOK
<1>2. CASE AcceptLoadMember(r)
  <2>1. RequestsOK'
    BY <1>2, LoadMemberType, AtInFlight, StepsListed DEF AcceptLoadMember, AllOps
  <2>. QED
    BY <1>2, <2>1 DEF AcceptLoadMember, TypeOK, RequestsOK, tables
<1>3. CASE AcceptCommit(r)
  <2>1. RequestsOK'
    BY <1>3, FinishType DEF AcceptCommit, TypeOK, RequestsOK
  <2>2. member' \in [Users -> Row] /\ admin' \in [Users -> BOOLEAN]
    BY <1>3, MemberTableType DEF AcceptCommit, TypeOK
  <2>3. invite' \in [Users -> Row] /\ inviter' \in [Users -> Users \cup {None}]
    BY <1>3 DEF AcceptCommit, TypeOK, Row
  <2>. QED
    BY <1>3, <2>1, <2>2, <2>3 DEF AcceptCommit, TypeOK, RequestsOK
<1>. QED
  BY <1>1, <1>2, <1>3 DEF AcceptInvite

LEMMA DeleteAccountType ==
    ASSUME TypeOK, NEW r \in Requests, DeleteAccount(r)
    PROVE  TypeOK'
<1>1. ASSUME NEW u \in Users, DeleteAccountRead(r, u) PROVE TypeOK'
  BY <1>1, OpenType, StepsListed DEF DeleteAccountRead, Row
<1>2. CASE DeleteAccountLoadRooms(r)
  BY <1>2, CheckType, StepsListed DEF DeleteAccountLoadRooms, AllOps
<1>3. CASE DeleteAccountCommit(r)
  <2>. DEFINE u == req[r].by
  <2>1. RequestsOK'
    BY <1>3, FinishType DEF DeleteAccountCommit, TypeOK, RequestsOK
  <2>2. accounts' \subseteq Users /\ invited' \subseteq Users
    BY <1>3 DEF DeleteAccountCommit, TypeOK
  <2>3. CASE Live /\ room.owner = u /\ u \in accounts
    BY <1>3, <2>1, <2>2, <2>3, DropRoomType
       DEF DeleteAccountCommit, TypeOK, RequestsOK
  <2>4. CASE ~(Live /\ room.owner = u /\ u \in accounts)
    <3>1. /\ member' \in [Users -> Row] /\ admin' \in [Users -> BOOLEAN]
          /\ ban' \in [Users -> Row]
      BY <1>3, <2>4 DEF DeleteAccountCommit, TypeOK, Row
    <3>2. /\ invite' \in [Users -> Row]
          /\ inviter' \in [Users -> Users \cup {None}]
      BY <1>3, <2>4 DEF DeleteAccountCommit, TypeOK, Row
    <3>3. room' \in RoomRecord
      BY <1>3, <2>4 DEF DeleteAccountCommit, TypeOK
    <3>. QED
      BY <2>1, <2>2, <3>1, <3>2, <3>3 DEF TypeOK, RequestsOK
  <2>. QED
    BY <2>3, <2>4
<1>. QED
  BY <1>1, <1>2, <1>3 DEF DeleteAccount

\* Every state of the room's tables and of the requests in flight is well
\* typed, for any number of users, requests and endpoints in use.
THEOREM TypeCorrect == Spec => []TypeOK
<1>1. Init => TypeOK
  BY DEF Init, TypeOK, NoRows, RoomRecord, Request, Row
<1>2. TypeOK /\ [Next]_vars => TypeOK'
  <2>. SUFFICES ASSUME TypeOK, [Next]_vars PROVE TypeOK'
    OBVIOUS
  <2>1. CASE UNCHANGED vars
    BY <2>1 DEF vars, tables, TypeOK
  <2>2. CASE Next
    BY <2>2, CreateRoomType, JoinRoomType, LeaveRoomType, DeleteRoomType,
       BanMemberType, UnbanMemberType, ChangeRoleType, InviteUserType,
       AcceptInviteType, DeleteAccountType DEF Next
  <2>. QED
    BY <2>1, <2>2
<1>. QED
  BY <1>1, <1>2, PTL DEF Spec

-----------------------------------------------------------------------------
(* The owner stays a member and an administrator.                          *)

\* What a request in flight must not be: one that ends the owner's
\* membership or role.
SparesOwner(q) ==
    /\ q.op = "leave" => q.by # room.owner
    /\ q.op = "ban" /\ q.pc # "room" => q.on # room.owner
    /\ q.op = "revoke" /\ q.pc # "caller" => q.on # room.owner

\* The only requests there can be before the room exists.
BeforeRoom(q) == q.op \in {"none", "create", "delete_account"}

OwnerInv ==
    /\ room.status = "absent" =>
          /\ \A u \in Users : member[u] = None /\ invite[u] = None
          /\ \A r \in Requests : BeforeRoom(req[r])
    /\ Live => \A r \in Requests : SparesOwner(req[r])
    /\ OwnerIsAdmin

\* A step that only moves a request keeps the invariant when the request it
\* leaves behind is harmless.
LEMMA OwnerRead ==
    ASSUME TypeOK, OwnerInv, UNCHANGED tables, NEW r \in Requests, NEW new,
           req' = [req EXCEPT ![r] = new],
           room.status = "absent" => BeforeRoom(new),
           Live => SparesOwner(new)
    PROVE  OwnerInv'
<1>1. \A s \in Requests : req'[s] = IF s = r THEN new ELSE req[s]
  BY DEF TypeOK
<1>. QED
  BY <1>1 DEF OwnerInv, OwnerIsAdmin, SparesOwner, BeforeRoom, Live, tables

\* A request that raises or has nothing to do is harmless.
LEMMA OwnerFinish ==
    ASSUME TypeOK, OwnerInv, UNCHANGED tables, NEW r \in Requests, Finish(r)
    PROVE  OwnerInv'
<1>1. BeforeRoom(Idle) /\ SparesOwner(Idle)
  BY DEF BeforeRoom, SparesOwner, Idle
<1>. QED
  BY <1>1, OwnerRead DEF Finish

\* A check of an endpoint that does not threaten the owner.
LEMMA OwnerCheck ==
    ASSUME TypeOK, OwnerInv, NEW r \in Requests, NEW pc, NEW ok, NEW op, NEW at,
           At(r, op, at), op \in AllOps \ {"leave", "ban", "revoke"},
           Check(r, ok, pc)
    PROVE  OwnerInv'
<1>1. CASE Finish(r)
  BY <1>1, OwnerFinish DEF Check
<1>2. CASE Advance(r, pc)
  <2>. DEFINE new == [req[r] EXCEPT !.pc = pc]
  <2>1. req[r] \in InFlight
    BY AtInFlight
  <2>2. new.op = op /\ req[r].op = op
    BY <2>1 DEF InFlight, At
  <2>3. SparesOwner(new) /\ (BeforeRoom(req[r]) => BeforeRoom(new))
    BY <2>2 DEF SparesOwner, BeforeRoom
  <2>4. req' = [req EXCEPT ![r] = new] /\ UNCHANGED tables
    BY <1>2 DEF Advance, Check
  <2>5. room.status = "absent" => BeforeRoom(new)
    BY <2>3 DEF OwnerInv
  <2>. HIDE DEF new
  <2>. QED
    BY <2>3, <2>4, <2>5, OwnerRead
<1>. QED
  BY <1>1, <1>2 DEF Check

\* A new request of a live room: a departure is never the owner's.
LEMMA OwnerOpen ==
    ASSUME TypeOK, OwnerInv, NEW r \in Requests, NEW op, NEW by, NEW on,
           NEW pc, NEW row, NEW rec, Open(r, op, by, on, pc, row, rec),
           op \in {"none", "create", "delete_account"} \/ room.status # "absent",
           op = "leave" => by # room.owner,
           op = "ban" => pc = "room",
           op = "revoke" => pc = "caller"
    PROVE  OwnerInv'
<1>. DEFINE new == [op |-> op, pc |-> pc, by |-> by, on |-> on, row |-> row,
                    adm |-> row # None /\ admin[by], rec |-> rec]
<1>1. SparesOwner(new) /\ (room.status = "absent" => BeforeRoom(new))
  BY DEF SparesOwner, BeforeRoom
<1>2. req' = [req EXCEPT ![r] = new] /\ UNCHANGED tables
  BY DEF Open
<1>. HIDE DEF new
<1>. QED
  BY <1>1, <1>2, OwnerRead

\* Loading a membership keeps the request's endpoint and users.
LEMMA OwnerLoad ==
    ASSUME TypeOK, OwnerInv, UNCHANGED tables, NEW r \in Requests, NEW u,
           NEW pc, NEW op \in AllOps, NEW at, At(r, op, at),
           LoadMember(r, u, pc),
           op = "ban" /\ Live => req[r].on # room.owner,
           op = "revoke" /\ Live => req[r].on # room.owner
    PROVE  OwnerInv'
<1>. DEFINE adm == IF u = req[r].by /\ member[u] = req[r].row
                   THEN req[r].adm ELSE admin[u]
            new == [req[r] EXCEPT !.pc = pc, !.row = member[u], !.adm = adm]
<1>1. req[r] \in InFlight
  BY AtInFlight
<1>2. req' = [req EXCEPT ![r] = new]
  BY DEF LoadMember
<1>. HIDE DEF adm
<1>3. new.op = op /\ new.by = req[r].by /\ new.on = req[r].on /\ req[r].op = op
  BY <1>1 DEF InFlight, At
<1>. HIDE DEF new
<1>4. room.status = "absent" => BeforeRoom(new)
  BY <1>3 DEF BeforeRoom, OwnerInv
<1>5. Live => SparesOwner(new)
  BY <1>3 DEF SparesOwner, OwnerInv
<1>. QED
  BY <1>2, <1>4, <1>5, OwnerRead

\* A handler's last step keeps the invariant when the room stays as it is and
\* its owner keeps account, membership and role, or when the room is gone.
LEMMA OwnerCommit ==
    ASSUME TypeOK, OwnerInv, NEW r \in Requests, Finish(r),
           \/ /\ room' = room
              /\ room.status = "absent" =>
                    \A u \in Users : member'[u] = None /\ invite'[u] = None
              /\ Live => /\ room.owner \in accounts'
                         /\ member'[room.owner] # None
                         /\ admin'[room.owner]
           \/ room'.status = "deleted"
    PROVE  OwnerInv'
<1>1. BeforeRoom(Idle) /\ SparesOwner(Idle)
  BY DEF BeforeRoom, SparesOwner, Idle
<1>2. \A s \in Requests : req'[s] = IF s = r THEN Idle ELSE req[s]
  BY DEF TypeOK, Finish
<1>3. CASE room'.status = "deleted"
  BY <1>3 DEF OwnerInv, OwnerIsAdmin, Live
<1>4. CASE room' = room
  BY <1>1, <1>2, <1>4, <1>3
     DEF OwnerInv, OwnerIsAdmin, SparesOwner, BeforeRoom, Live
<1>. QED
  BY <1>3, <1>4

LEMMA CreateRoomOwner ==
    ASSUME TypeOK, OwnerInv, NEW r \in Requests, CreateRoom(r)
    PROVE  OwnerInv'
<1>1. ASSUME NEW u \in Users, CreateCheckName(r, u) PROVE OwnerInv'
  BY <1>1, OwnerOpen DEF CreateCheckName
<1>2. CASE CreateCommit(r)
  <2>. DEFINE u == req[r].by
  <2>1. CASE room.status = "absent" /\ u \in accounts
    <3>1. PICK private \in BOOLEAN, x \in FreshMemberKeys :
            /\ room' = [status |-> "live", owner |-> u, private |-> private]
            /\ member' = [member EXCEPT ![u] = x]
            /\ admin' = [admin EXCEPT ![u] = TRUE]
      BY <1>2, <2>1 DEF CreateCommit
    <3>2. u \in Users /\ x # None
      BY <2>1, <3>1, NoneAssumption DEF TypeOK, FreshMemberKeys
    <3>3. accounts' = accounts /\ Finish(r)
      BY <1>2 DEF CreateCommit
    <3>4. OwnerIsAdmin'
      BY <2>1, <3>1, <3>2, <3>3 DEF OwnerIsAdmin, TypeOK
    <3>5. \A s \in Requests : req'[s] = Idle \/ req'[s] = req[s]
      BY <3>3 DEF Finish, TypeOK
    <3>6. \A s \in Requests : BeforeRoom(req'[s])
      BY <2>1, <3>5 DEF OwnerInv, BeforeRoom, Idle
    <3>7. \A s \in Requests : SparesOwner(req[s])'
      BY <3>6 DEF BeforeRoom, SparesOwner
    <3>. QED
      BY <3>1, <3>4, <3>7 DEF OwnerInv
  <2>2. CASE ~(room.status = "absent" /\ u \in accounts)
    BY <1>2, <2>2, OwnerFinish DEF CreateCommit, tables
  <2>. QED
    BY <2>1, <2>2
<1>. QED
  BY <1>1, <1>2 DEF CreateRoom

\* An insert for a user without a membership leaves the owner's alone.
LEMMA InsertSparesOwner ==
    ASSUME TypeOK, OwnerInv, NEW u, MayInsert(member, u), InsertMember(u)
    PROVE  /\ room.owner \in accounts /\ Live
           /\ member'[room.owner] # None /\ admin'[room.owner]
<1>1. Live /\ u # room.owner /\ room.owner \in Users
  BY DEF OwnerInv, OwnerIsAdmin, MayInsert, TypeOK
<1>. QED
  BY <1>1 DEF InsertMember, TypeOK, OwnerInv, OwnerIsAdmin

LEMMA JoinRoomOwner ==
    ASSUME TypeOK, OwnerInv, NEW r \in Requests, JoinRoom(r)
    PROVE  OwnerInv'
<1>1. ASSUME NEW u \in Users, JoinReadRoom(r, u) PROVE OwnerInv'
  BY <1>1, OwnerOpen DEF JoinReadRoom, Live
<1>2. CASE JoinCheckBan(r)
  BY <1>2, OwnerCheck DEF JoinCheckBan, AllOps
<1>3. CASE JoinCheckMember(r)
  BY <1>3, OwnerCheck DEF JoinCheckMember, AllOps
<1>4. CASE JoinCommit(r)
  <2>1. CASE MayInsert(member, req[r].by)
    <3>1. InsertMember(req[r].by) /\ Finish(r)
          /\ UNCHANGED <<accounts, room>>
      BY <1>4, <2>1 DEF JoinCommit
    <3>. QED
      BY <2>1, <3>1, InsertSparesOwner, OwnerCommit DEF Live
  <2>2. CASE ~MayInsert(member, req[r].by)
    BY <1>4, <2>2, OwnerFinish DEF JoinCommit, tables
  <2>. QED
    BY <2>1, <2>2
<1>. QED
  BY <1>1, <1>2, <1>3, <1>4 DEF JoinRoom

\* Deleting somebody else's membership leaves the owner's alone.
LEMMA DeleteSparesOwner ==
    ASSUME TypeOK, OwnerInv, NEW u, NEW x, DeleteMember(u, x),
           Live => u # room.owner
    PROVE  /\ Live => member'[room.owner] # None /\ admin'[room.owner]
           /\ \A v \in Users : member[v] = None => member'[v] = None
<1>1. Live => room.owner \in Users
  BY DEF OwnerInv, OwnerIsAdmin, TypeOK
<1>. QED
  BY <1>1 DEF DeleteMember, TypeOK, OwnerInv, OwnerIsAdmin

LEMMA LeaveRoomOwner ==
    ASSUME TypeOK, OwnerInv, NEW r \in Requests, LeaveRoom(r)
    PROVE  OwnerInv'
<1>1. ASSUME NEW u \in Users, LeaveReadRoom(r, u) PROVE OwnerInv'
  BY <1>1, OwnerOpen DEF LeaveReadRoom, Live
<1>2. CASE LeaveLoadMember(r)
  BY <1>2, OwnerLoad, OwnerFinish DEF LeaveLoadMember, AllOps, At
<1>3. CASE LeaveCommit(r)
  <2>1. Live => req[r].by # room.owner
    BY <1>3 DEF LeaveCommit, At, OwnerInv, SparesOwner
  <2>2. /\ DeleteMember(req[r].by, req[r].row) /\ Finish(r)
        /\ UNCHANGED <<accounts, room, invite>>
    BY <1>3 DEF LeaveCommit
  <2>. QED
    BY <2>1, <2>2, DeleteSparesOwner, OwnerCommit DEF OwnerInv, OwnerIsAdmin
<1>. QED
  BY <1>1, <1>2, <1>3 DEF LeaveRoom

LEMMA DeleteRoomOwner ==
    ASSUME TypeOK, OwnerInv, NEW r \in Requests, DeleteRoom(r)
    PROVE  OwnerInv'
<1>1. ASSUME NEW u \in Users, DeleteRoomRead(r, u) PROVE OwnerInv'
  BY <1>1, OwnerOpen DEF DeleteRoomRead, Live
<1>2. CASE DeleteRoomCommit(r)
  <2>1. CASE Live
    <3>1. room' = [room EXCEPT !.status = "deleted"] /\ Finish(r)
      BY <1>2, <2>1 DEF DeleteRoomCommit, DropRoom
    <3>2. room'.status = "deleted"
      BY <3>1 DEF TypeOK, RoomRecord
    <3>. QED
      BY <3>1, <3>2, OwnerCommit
  <2>2. CASE ~Live
    BY <1>2, <2>2, OwnerFinish DEF DeleteRoomCommit, tables
  <2>. QED
    BY <2>1, <2>2
<1>. QED
  BY <1>1, <1>2 DEF DeleteRoom

LEMMA BanMemberOwner ==
    ASSUME TypeOK, OwnerInv, NEW r \in Requests, BanMember(r)
    PROVE  OwnerInv'
<1>1. ASSUME NEW u \in Users, NEW v \in Users, BanRequireAdmin(r, u, v)
      PROVE  OwnerInv'
  <2>1. room.status # "absent"
    BY <1>1 DEF BanRequireAdmin, RequireAdmin, OwnerInv
  <2>. QED
    BY <1>1, <2>1, OwnerOpen DEF BanRequireAdmin, RequireAdmin
<1>2. CASE BanCheckOwner(r)
  <2>. DEFINE new == [req[r] EXCEPT !.pc = "ban"]
  <2>1. CASE Live /\ req[r].on # room.owner
    <3>1. req[r] \in InFlight
      BY <1>2, AtInFlight DEF BanCheckOwner, AllOps
    <3>2. new.op = "ban" /\ new.on = req[r].on
      BY <1>2, <3>1 DEF InFlight, BanCheckOwner, At
    <3>3. req' = [req EXCEPT ![r] = new] /\ UNCHANGED tables
      BY <1>2, <2>1 DEF BanCheckOwner, Check, Advance
    <3>. HIDE DEF new
    <3>. QED
      BY <2>1, <3>2, <3>3, OwnerRead DEF SparesOwner, Live
  <2>2. CASE ~(Live /\ req[r].on # room.owner)
    BY <1>2, <2>2, OwnerFinish DEF BanCheckOwner, Check
  <2>. QED
    BY <2>1, <2>2
<1>3. CASE BanLoadBan(r)
  <2>. DEFINE new == [req[r] EXCEPT !.pc = "target", !.rec = ban[req[r].on]]
  <2>1. req[r] \in InFlight
    BY <1>3, AtInFlight DEF BanLoadBan, AllOps
  <2>2. new.op = "ban" /\ new.on = req[r].on /\ req[r].op = "ban"
    BY <1>3, <2>1 DEF InFlight, BanLoadBan, At
  <2>3. req' = [req EXCEPT ![r] = new] /\ UNCHANGED tables
    BY <1>3 DEF BanLoadBan
  <2>4. Live => req[r].on # room.owner
    BY <1>3 DEF BanLoadBan, At, OwnerInv, SparesOwner
  <2>5. room.status # "absent"
    BY <2>2 DEF OwnerInv, BeforeRoom
  <2>. HIDE DEF new
  <2>. QED
    BY <2>2, <2>3, <2>4, <2>5, OwnerRead DEF SparesOwner
<1>4. CASE BanLoadMember(r)
  <2>1. Live => req[r].on # room.owner
    BY <1>4 DEF BanLoadMember, At, OwnerInv, SparesOwner
  <2>. QED
    BY <1>4, <2>1, OwnerLoad DEF BanLoadMember, AllOps
<1>5. CASE BanCommit(r)
  <2>1. Live => req[r].on # room.owner
    BY <1>5 DEF BanCommit, At, OwnerInv, SparesOwner
  <2>2. Finish(r) /\ UNCHANGED <<accounts, room, invite>>
    BY <1>5 DEF BanCommit
  <2>3. CASE UNCHANGED <<member, admin>>
    BY <2>2, <2>3, OwnerCommit DEF OwnerInv, OwnerIsAdmin
  <2>4. CASE DeleteMember(req[r].on, req[r].row)
    BY <2>1, <2>2, <2>4, DeleteSparesOwner, OwnerCommit
       DEF OwnerInv, OwnerIsAdmin
  <2>. QED
    BY <1>5, <2>3, <2>4 DEF BanCommit
<1>. QED
  BY <1>1, <1>2, <1>3, <1>4, <1>5 DEF BanMember

LEMMA UnbanMemberOwner ==
    ASSUME TypeOK, OwnerInv, NEW r \in Requests, UnbanMember(r)
    PROVE  OwnerInv'
<1>1. ASSUME NEW u \in Users, NEW v \in Users, UnbanRequireAdmin(r, u, v)
      PROVE  OwnerInv'
  <2>1. room.status # "absent"
    BY <1>1 DEF UnbanRequireAdmin, RequireAdmin, OwnerInv
  <2>. QED
    BY <1>1, <2>1, OwnerOpen DEF UnbanRequireAdmin, RequireAdmin
<1>2. CASE UnbanLoadBan(r)
  <2>. DEFINE found == [req[r] EXCEPT !.pc = "commit", !.rec = ban[req[r].on]]
              new == IF ban[req[r].on] = None THEN Idle ELSE found
  <2>1. req[r] \in InFlight /\ req[r].op = "unban"
    BY <1>2, AtInFlight DEF UnbanLoadBan, AllOps, At
  <2>2. new.op \in {"unban", "none"}
    BY <2>1 DEF InFlight, Idle
  <2>3. req' = [req EXCEPT ![r] = new] /\ UNCHANGED tables
    BY <1>2 DEF UnbanLoadBan
  <2>4. room.status # "absent"
    BY <2>1 DEF OwnerInv, BeforeRoom
  <2>. HIDE DEF new
  <2>. QED
    BY <2>2, <2>3, <2>4, OwnerRead DEF SparesOwner
<1>3. CASE UnbanCommit(r)
  BY <1>3, OwnerCommit DEF UnbanCommit, OwnerInv, OwnerIsAdmin
<1>. QED
  BY <1>1, <1>2, <1>3 DEF UnbanMember

LEMMA ChangeRoleOwner ==
    ASSUME TypeOK, OwnerInv, NEW r \in Requests, ChangeRole(r)
    PROVE  OwnerInv'
<1>1. ASSUME NEW u \in Users, NEW v \in Users, GrantReadRoom(r, u, v)
      PROVE  OwnerInv'
  BY <1>1, OwnerOpen DEF GrantReadRoom, Live
<1>2. ASSUME NEW u \in Users, NEW v \in Users, RevokeReadRoom(r, u, v)
      PROVE  OwnerInv'
  BY <1>2, OwnerOpen DEF RevokeReadRoom, Live
<1>3. CASE RevokeCheckCaller(r)
  <2>1. At(r, "revoke", "caller") /\ UNCHANGED tables
    BY <1>3 DEF RevokeCheckCaller
  <2>2. CASE Finish(r)
    BY <2>1, <2>2, OwnerFinish
  <2>3. CASE LoadMember(r, req[r].by, "target") /\ req[r].on # room.owner
    BY <2>1, <2>3, OwnerLoad DEF AllOps
  <2>. QED
    BY <1>3, <2>2, <2>3 DEF RevokeCheckCaller
<1>4. CASE RoleLoadMember(r)
  <2>1. UNCHANGED tables
    BY <1>4 DEF RoleLoadMember
  <2>2. CASE Finish(r)
    BY <2>1, <2>2, OwnerFinish
  <2>3. CASE At(r, "grant", "target") /\ LoadMember(r, req[r].on, "commit")
    BY <2>1, <2>3, OwnerLoad DEF AllOps
  <2>4. CASE At(r, "revoke", "target") /\ LoadMember(r, req[r].on, "commit")
    <3>1. Live => req[r].on # room.owner
      BY <2>4 DEF At, OwnerInv, SparesOwner
    <3>. QED
      BY <2>1, <2>4, <3>1, OwnerLoad DEF AllOps
  <2>. QED
    BY <1>4, <2>2, <2>3, <2>4 DEF RoleLoadMember
<1>5. CASE RoleCommit(r)
  <2>1. Finish(r) /\ UNCHANGED <<accounts, room, member, invite>>
    BY <1>5 DEF RoleCommit
  <2>2. Live => admin'[room.owner]
    <3>1. CASE At(r, "grant", "commit")
      BY <1>5, <3>1 DEF RoleCommit, SetAdmin, At, OwnerInv, OwnerIsAdmin, TypeOK
    <3>2. CASE At(r, "revoke", "commit")
      BY <1>5, <3>2 DEF RoleCommit, SetAdmin, At, OwnerInv, OwnerIsAdmin,
                        SparesOwner, TypeOK
    <3>. QED
      BY <1>5, <3>1, <3>2 DEF RoleCommit
  <2>. QED
    BY <2>1, <2>2, OwnerCommit DEF OwnerInv, OwnerIsAdmin
<1>. QED
  BY <1>1, <1>2, <1>3, <1>4, <1>5 DEF ChangeRole

LEMMA InviteUserOwner ==
    ASSUME TypeOK, OwnerInv, NEW r \in Requests, InviteUser(r)
    PROVE  OwnerInv'
<1>1. ASSUME NEW u \in Users, NEW v \in Users, InviteCheckMember(r, u, v)
      PROVE  OwnerInv'
  <2>1. room.status # "absent"
    BY <1>1 DEF InviteCheckMember, OwnerInv
  <2>. QED
    BY <1>1, <2>1, OwnerOpen DEF InviteCheckMember
<1>2. CASE InviteFindUser(r)
  BY <1>2, OwnerCheck DEF InviteFindUser, AllOps
<1>3. CASE InviteCheckTarget(r)
  BY <1>3, OwnerCheck DEF InviteCheckTarget, AllOps
<1>4. CASE InviteCheckBan(r)
  BY <1>4, OwnerCheck DEF InviteCheckBan, AllOps
<1>5. CASE InviteCheckInvite(r)
  BY <1>5, OwnerCheck DEF InviteCheckInvite, AllOps
<1>6. CASE InviteCommit(r)
  <2>1. Finish(r) /\ UNCHANGED <<accounts, room, member, admin>>
    BY <1>6 DEF InviteCommit
  <2>2. Live \/ UNCHANGED invite
    BY <1>6 DEF InviteCommit, MayInsert
  <2>. QED
    BY <2>1, <2>2, OwnerCommit DEF OwnerInv, OwnerIsAdmin, Live
<1>. QED
  BY <1>1, <1>2, <1>3, <1>4, <1>5, <1>6 DEF InviteUser

LEMMA AcceptInviteOwner ==
    ASSUME TypeOK, OwnerInv, NEW r \in Requests, AcceptInvite(r)
    PROVE  OwnerInv'
<1>1. ASSUME NEW u \in Users, AcceptLoadInvite(r, u) PROVE OwnerInv'
  <2>1. room.status # "absent"
    BY <1>1 DEF AcceptLoadInvite, OwnerInv
  <2>. QED
    BY <1>1, <2>1, OwnerOpen DEF AcceptLoadInvite
<1>2. CASE AcceptLoadMember(r)
  BY <1>2, OwnerLoad DEF AcceptLoadMember, AllOps
<1>3. CASE AcceptCommit(r)
  <2>1. Finish(r) /\ UNCHANGED <<accounts, room>> /\ At(r, "accept", "commit")
    BY <1>3 DEF AcceptCommit
  <2>2. room.status # "absent"
    BY <2>1 DEF At, OwnerInv, BeforeRoom
  <2>3. CASE MayInsert(member, req[r].by) /\ InsertMember(req[r].by)
    BY <2>1, <2>2, <2>3, InsertSparesOwner, OwnerCommit DEF Live
  <2>4. CASE UNCHANGED <<member, admin>>
    BY <2>1, <2>2, <2>4, OwnerCommit DEF OwnerInv, OwnerIsAdmin
  <2>. QED
    BY <1>3, <2>3, <2>4 DEF AcceptCommit
<1>. QED
  BY <1>1, <1>2, <1>3 DEF AcceptInvite

LEMMA DeleteAccountOwner ==
    ASSUME TypeOK, OwnerInv, NEW r \in Requests, DeleteAccount(r)
    PROVE  OwnerInv'
<1>1. ASSUME NEW u \in Users, DeleteAccountRead(r, u) PROVE OwnerInv'
  BY <1>1, OwnerOpen DEF DeleteAccountRead
<1>2. CASE DeleteAccountLoadRooms(r)
  BY <1>2, OwnerCheck DEF DeleteAccountLoadRooms, AllOps
<1>3. CASE DeleteAccountCommit(r)
  <2>. DEFINE u == req[r].by
  <2>1. Finish(r) /\ accounts' = accounts \ {u}
    BY <1>3 DEF DeleteAccountCommit
  <2>2. CASE Live /\ room.owner = u /\ u \in accounts
    <3>1. room' = [room EXCEPT !.status = "deleted"]
      BY <1>3, <2>2 DEF DeleteAccountCommit, DropRoom
    <3>2. room'.status = "deleted"
      BY <3>1 DEF TypeOK, RoomRecord
    <3>. QED
      BY <2>1, <3>2, OwnerCommit
  <2>3. CASE ~(Live /\ room.owner = u /\ u \in accounts)
    <3>1. /\ member' = [member EXCEPT ![u] = None]
          /\ admin' = [admin EXCEPT ![u] = FALSE]
          /\ \A v \in Users : invite[v] = None => invite'[v] = None
          /\ room' = room
      BY <1>3, <2>3 DEF DeleteAccountCommit, TypeOK
    <3>2. Live => room.owner # u /\ room.owner \in Users
      BY <2>3 DEF OwnerInv, OwnerIsAdmin, TypeOK
    <3>3. Live => /\ room.owner \in accounts' /\ member'[room.owner] # None
                  /\ admin'[room.owner]
      BY <2>1, <3>1, <3>2 DEF OwnerInv, OwnerIsAdmin, TypeOK
    <3>4. room.status = "absent" =>
             \A v \in Users : member'[v] = None /\ invite'[v] = None
      BY <3>1 DEF OwnerInv, TypeOK
    <3>. QED
      BY <2>1, <3>1, <3>3, <3>4, OwnerCommit
  <2>. QED
    BY <2>2, <2>3
<1>. QED
  BY <1>1, <1>2, <1>3 DEF DeleteAccount

LEMMA OwnerAlways == Spec => []OwnerInv
<1>1. Init => OwnerInv
  BY DEF Init, OwnerInv, OwnerIsAdmin, Live, NoRows, BeforeRoom, Idle
<1>2. TypeOK /\ OwnerInv /\ [Next]_vars => OwnerInv'
  <2>. SUFFICES ASSUME TypeOK, OwnerInv, [Next]_vars PROVE OwnerInv'
    OBVIOUS
  <2>1. CASE UNCHANGED vars
    BY <2>1 DEF vars, tables, OwnerInv, OwnerIsAdmin, Live, SparesOwner,
                BeforeRoom
  <2>2. CASE Next
    BY <2>2, CreateRoomOwner, JoinRoomOwner, LeaveRoomOwner, DeleteRoomOwner,
       BanMemberOwner, UnbanMemberOwner, ChangeRoleOwner, InviteUserOwner,
       AcceptInviteOwner, DeleteAccountOwner DEF Next
  <2>. QED
    BY <2>1, <2>2
<1>. QED
  BY <1>1, <1>2, TypeCorrect, PTL DEF Spec

\* The owner of a live room always has an account, is a member of the room
\* and is its administrator, for any number of concurrent requests.
THEOREM OwnerStaysAdmin == Spec => []OwnerIsAdmin
<1>1. OwnerInv => OwnerIsAdmin
  BY DEF OwnerInv
<1>. QED
  BY <1>1, OwnerAlways, PTL

-----------------------------------------------------------------------------
(* No row outlives its room or its users.                                  *)

\* A role change about to be written holds a row, so that it cannot flag a
\* user without one.
HoldsRow(q) ==
    (q.op \in {"grant", "revoke"} /\ q.pc = "commit") => q.row # None

OrphanInv == NoOrphanRows /\ \A r \in Requests : HoldsRow(req[r])

\* A step that only moves a request, to a state that is not the last one of a
\* role change.
LEMMA OrphanRead ==
    ASSUME TypeOK, OrphanInv, UNCHANGED tables, NEW r \in Requests, NEW new,
           req' = [req EXCEPT ![r] = new], HoldsRow(new)
    PROVE  OrphanInv'
<1>1. \A s \in Requests : req'[s] = new \/ req'[s] = req[s]
  BY DEF TypeOK
<1>. QED
  BY <1>1 DEF OrphanInv, NoOrphanRows, HoldsRow, Live, tables

LEMMA OrphanOpen ==
    ASSUME TypeOK, OrphanInv, NEW r \in Requests, NEW op, NEW by, NEW on,
           NEW pc, NEW row, NEW rec, Open(r, op, by, on, pc, row, rec),
           pc # "commit" \/ op \notin {"grant", "revoke"}
    PROVE  OrphanInv'
<1>. DEFINE new == [op |-> op, pc |-> pc, by |-> by, on |-> on, row |-> row,
                    adm |-> row # None /\ admin[by], rec |-> rec]
<1>1. HoldsRow(new)
  BY DEF HoldsRow
<1>2. req' = [req EXCEPT ![r] = new] /\ UNCHANGED tables
  BY DEF Open
<1>. HIDE DEF new
<1>. QED
  BY <1>1, <1>2, OrphanRead

LEMMA OrphanFinish ==
    ASSUME TypeOK, OrphanInv, UNCHANGED tables, NEW r \in Requests, Finish(r)
    PROVE  OrphanInv'
BY OrphanRead DEF Finish, HoldsRow, Idle

LEMMA OrphanCheck ==
    ASSUME TypeOK, OrphanInv, NEW r \in Requests, NEW pc, NEW ok,
           NEW op \in AllOps \ {"grant", "revoke"}, NEW at, At(r, op, at),
           Check(r, ok, pc)
    PROVE  OrphanInv'
<1>1. CASE Finish(r)
  BY <1>1, OrphanFinish DEF Check
<1>2. CASE Advance(r, pc)
  <2>. DEFINE new == [req[r] EXCEPT !.pc = pc]
  <2>1. new.op = op
    BY AtInFlight DEF InFlight, At
  <2>2. req' = [req EXCEPT ![r] = new] /\ UNCHANGED tables
    BY <1>2 DEF Advance, Check
  <2>. HIDE DEF new
  <2>. QED
    BY <2>1, <2>2, OrphanRead DEF HoldsRow
<1>. QED
  BY <1>1, <1>2 DEF Check

LEMMA OrphanLoad ==
    ASSUME TypeOK, OrphanInv, UNCHANGED tables, NEW r \in Requests, NEW u,
           NEW pc, NEW op \in AllOps, NEW at, At(r, op, at),
           LoadMember(r, u, pc),
           op \in {"grant", "revoke"} => member[u] # None
    PROVE  OrphanInv'
<1>. DEFINE adm == IF u = req[r].by /\ member[u] = req[r].row
                   THEN req[r].adm ELSE admin[u]
            new == [req[r] EXCEPT !.pc = pc, !.row = member[u], !.adm = adm]
<1>1. req' = [req EXCEPT ![r] = new]
  BY DEF LoadMember
<1>. HIDE DEF adm
<1>2. new.op = op /\ new.row = member[u]
  BY AtInFlight DEF InFlight, At
<1>. HIDE DEF new
<1>. QED
  BY <1>1, <1>2, OrphanRead DEF HoldsRow

\* The steps that only read.
LEMMA OrphanReads ==
    ASSUME TypeOK, OrphanInv, NEW r \in Requests,
           \/ \E u \in Users :
                 \/ CreateCheckName(r, u) \/ JoinReadRoom(r, u)
                 \/ LeaveReadRoom(r, u) \/ DeleteRoomRead(r, u)
                 \/ AcceptLoadInvite(r, u) \/ DeleteAccountRead(r, u)
           \/ \E u, v \in Users :
                 \/ BanRequireAdmin(r, u, v) \/ UnbanRequireAdmin(r, u, v)
                 \/ GrantReadRoom(r, u, v) \/ RevokeReadRoom(r, u, v)
                 \/ InviteCheckMember(r, u, v)
           \/ JoinCheckBan(r) \/ JoinCheckMember(r) \/ BanCheckOwner(r)
           \/ InviteFindUser(r) \/ InviteCheckTarget(r) \/ InviteCheckBan(r)
           \/ InviteCheckInvite(r) \/ DeleteAccountLoadRooms(r)
           \/ LeaveLoadMember(r) \/ BanLoadMember(r) \/ AcceptLoadMember(r)
           \/ RevokeCheckCaller(r) \/ RoleLoadMember(r)
           \/ BanLoadBan(r) \/ UnbanLoadBan(r)
    PROVE  OrphanInv'
<1>1. ASSUME NEW u \in Users,
             \/ CreateCheckName(r, u) \/ JoinReadRoom(r, u)
             \/ LeaveReadRoom(r, u) \/ DeleteRoomRead(r, u)
             \/ AcceptLoadInvite(r, u) \/ DeleteAccountRead(r, u)
      PROVE  OrphanInv'
  BY <1>1, OrphanOpen DEF CreateCheckName, JoinReadRoom, LeaveReadRoom,
     DeleteRoomRead, AcceptLoadInvite, DeleteAccountRead
<1>2. ASSUME NEW u \in Users, NEW v \in Users,
             \/ BanRequireAdmin(r, u, v) \/ UnbanRequireAdmin(r, u, v)
             \/ GrantReadRoom(r, u, v) \/ RevokeReadRoom(r, u, v)
             \/ InviteCheckMember(r, u, v)
      PROVE  OrphanInv'
  BY <1>2, OrphanOpen DEF BanRequireAdmin, UnbanRequireAdmin, RequireAdmin,
     GrantReadRoom, RevokeReadRoom, InviteCheckMember
<1>3. CASE \/ JoinCheckBan(r) \/ JoinCheckMember(r) \/ BanCheckOwner(r)
           \/ InviteFindUser(r) \/ InviteCheckTarget(r) \/ InviteCheckBan(r)
           \/ InviteCheckInvite(r) \/ DeleteAccountLoadRooms(r)
  BY <1>3, OrphanCheck DEF JoinCheckBan, JoinCheckMember, BanCheckOwner,
     InviteFindUser, InviteCheckTarget, InviteCheckBan, InviteCheckInvite,
     DeleteAccountLoadRooms, AllOps
<1>4. CASE LeaveLoadMember(r) \/ BanLoadMember(r) \/ AcceptLoadMember(r)
  BY <1>4, OrphanLoad, OrphanFinish
     DEF LeaveLoadMember, BanLoadMember, AcceptLoadMember, AllOps
<1>5. CASE RevokeCheckCaller(r)
  BY <1>5, OrphanLoad, OrphanFinish DEF RevokeCheckCaller, AllOps
<1>6. CASE RoleLoadMember(r)
  BY <1>6, OrphanLoad, OrphanFinish DEF RoleLoadMember, AllOps
<1>7. CASE BanLoadBan(r)
  <2>. DEFINE new == [req[r] EXCEPT !.pc = "target", !.rec = ban[req[r].on]]
  <2>1. new.op = "ban" /\ req' = [req EXCEPT ![r] = new] /\ UNCHANGED tables
    BY <1>7, AtInFlight DEF BanLoadBan, At, AllOps, InFlight
  <2>. HIDE DEF new
  <2>. QED
    BY <2>1, OrphanRead DEF HoldsRow
<1>8. CASE UnbanLoadBan(r)
  <2>. DEFINE found == [req[r] EXCEPT !.pc = "commit", !.rec = ban[req[r].on]]
              new == IF ban[req[r].on] = None THEN Idle ELSE found
  <2>1. new.op \in {"unban", "none"}
    BY <1>8, AtInFlight DEF UnbanLoadBan, At, AllOps, InFlight, Idle
  <2>2. req' = [req EXCEPT ![r] = new] /\ UNCHANGED tables
    BY <1>8 DEF UnbanLoadBan
  <2>. HIDE DEF new
  <2>. QED
    BY <2>1, <2>2, OrphanRead DEF HoldsRow
<1>. QED
  BY <1>1, <1>2, <1>3, <1>4, <1>5, <1>6, <1>7, <1>8

\* A last step keeps the invariant when the tables it leaves behind do.
LEMMA OrphanCommit ==
    ASSUME TypeOK, OrphanInv, NEW r \in Requests, Finish(r), NoOrphanRows'
    PROVE  OrphanInv'
<1>1. \A s \in Requests : req'[s] = Idle \/ req'[s] = req[s]
  BY DEF TypeOK, Finish
<1>. QED
  BY <1>1 DEF OrphanInv, HoldsRow, Idle

\* The steps that write.
LEMMA OrphanWrites ==
    ASSUME TypeOK, OrphanInv, NEW r \in Requests,
           \/ CreateCommit(r) \/ JoinCommit(r) \/ LeaveCommit(r)
           \/ DeleteRoomCommit(r) \/ BanCommit(r) \/ UnbanCommit(r)
           \/ RoleCommit(r) \/ InviteCommit(r) \/ AcceptCommit(r)
           \/ DeleteAccountCommit(r)
    PROVE  OrphanInv'
<1>. DEFINE u == req[r].by
<1>1. CASE CreateCommit(r)
  <2>1. NoOrphanRows'
    BY <1>1, NoneAssumption DEF CreateCommit, FreshMemberKeys, TypeOK,
       OrphanInv, NoOrphanRows, Live
  <2>. QED
    BY <1>1, <2>1, OrphanCommit DEF CreateCommit
<1>2. CASE JoinCommit(r)
  <2>1. NoOrphanRows'
    BY <1>2, NoneAssumption DEF JoinCommit, InsertMember, MayInsert, TypeOK,
       OrphanInv, NoOrphanRows, Live
  <2>. QED
    BY <1>2, <2>1, OrphanCommit DEF JoinCommit
<1>3. CASE LeaveCommit(r)
  <2>1. NoOrphanRows'
    BY <1>3 DEF LeaveCommit, DeleteMember, TypeOK, OrphanInv, NoOrphanRows, Live
  <2>. QED
    BY <1>3, <2>1, OrphanCommit DEF LeaveCommit
<1>4. CASE DeleteRoomCommit(r)
  <2>1. NoOrphanRows'
    BY <1>4 DEF DeleteRoomCommit, DropRoom, NoRows, TypeOK, RoomRecord,
       OrphanInv, NoOrphanRows, Live
  <2>. QED
    BY <1>4, <2>1, OrphanCommit DEF DeleteRoomCommit
<1>5. CASE BanCommit(r)
  <2>1. NoOrphanRows'
    BY <1>5 DEF BanCommit, DeleteMember, MayInsert, TypeOK, OrphanInv,
       NoOrphanRows, Live
  <2>. QED
    BY <1>5, <2>1, OrphanCommit DEF BanCommit
<1>6. CASE UnbanCommit(r)
  <2>1. NoOrphanRows'
    BY <1>6 DEF UnbanCommit, TypeOK, OrphanInv, NoOrphanRows, Live
  <2>. QED
    BY <1>6, <2>1, OrphanCommit DEF UnbanCommit
<1>7. CASE RoleCommit(r)
  <2>1. req[r].row # None
    BY <1>7 DEF RoleCommit, At, OrphanInv, HoldsRow
  <2>2. NoOrphanRows'
    BY <1>7, <2>1 DEF RoleCommit, SetAdmin, TypeOK, OrphanInv, NoOrphanRows,
       Live
  <2>. QED
    BY <1>7, <2>2, OrphanCommit DEF RoleCommit
<1>8. CASE InviteCommit(r)
  <2>1. NoOrphanRows'
    BY <1>8 DEF InviteCommit, MayInsert, TypeOK, OrphanInv, NoOrphanRows, Live
  <2>. QED
    BY <1>8, <2>1, OrphanCommit DEF InviteCommit
<1>9. CASE AcceptCommit(r)
  <2>1. NoOrphanRows'
    BY <1>9, NoneAssumption DEF AcceptCommit, InsertMember, MayInsert, TypeOK,
       OrphanInv, NoOrphanRows, Live
  <2>. QED
    BY <1>9, <2>1, OrphanCommit DEF AcceptCommit
<1>10. CASE DeleteAccountCommit(r)
  <2>1. NoOrphanRows'
    <3>1. CASE Live /\ room.owner = u /\ u \in accounts
      BY <1>10, <3>1 DEF DeleteAccountCommit, DropRoom, NoRows, TypeOK,
         RoomRecord, NoOrphanRows, Live
    <3>2. CASE ~(Live /\ room.owner = u /\ u \in accounts)
      BY <1>10, <3>2 DEF DeleteAccountCommit, TypeOK, OrphanInv, NoOrphanRows,
         Live
    <3>. QED
      BY <3>1, <3>2
  <2>. QED
    BY <1>10, <2>1, OrphanCommit DEF DeleteAccountCommit
<1>. QED
  BY <1>1, <1>2, <1>3, <1>4, <1>5, <1>6, <1>7, <1>8, <1>9, <1>10

LEMMA OrphanAlways == Spec => []OrphanInv
<1>1. Init => OrphanInv
  BY DEF Init, OrphanInv, NoOrphanRows, NoRows, HoldsRow, Idle
<1>2. TypeOK /\ OrphanInv /\ [Next]_vars => OrphanInv'
  <2>. SUFFICES ASSUME TypeOK, OrphanInv, [Next]_vars PROVE OrphanInv'
    OBVIOUS
  <2>1. CASE UNCHANGED vars
    BY <2>1 DEF vars, tables, OrphanInv, NoOrphanRows, HoldsRow, Live
  <2>2. ASSUME NEW r \in Requests, CreateRoom(r) \/ JoinRoom(r) \/ LeaveRoom(r)
               \/ DeleteRoom(r) \/ BanMember(r) \/ UnbanMember(r)
               \/ ChangeRole(r) \/ InviteUser(r) \/ AcceptInvite(r)
               \/ DeleteAccount(r)
        PROVE  OrphanInv'
    <3>1. CASE CreateRoom(r) \/ JoinRoom(r) \/ LeaveRoom(r) \/ DeleteRoom(r)
      BY <3>1, OrphanReads, OrphanWrites
         DEF CreateRoom, JoinRoom, LeaveRoom, DeleteRoom
    <3>2. CASE BanMember(r) \/ UnbanMember(r) \/ ChangeRole(r)
      BY <3>2, OrphanReads, OrphanWrites DEF BanMember, UnbanMember, ChangeRole
    <3>3. CASE InviteUser(r) \/ AcceptInvite(r) \/ DeleteAccount(r)
      BY <3>3, OrphanReads, OrphanWrites
         DEF InviteUser, AcceptInvite, DeleteAccount
    <3>. QED
      BY <2>2, <3>1, <3>2, <3>3
  <2>. QED
    BY <2>1, <2>2 DEF Next
<1>. QED
  BY <1>1, <1>2, TypeCorrect, PTL DEF Spec

\* Memberships, bans and invitations never outlive the room or the account
\* they belong to, for any number of concurrent requests.
THEOREM RowsNeverOrphaned == Spec => []NoOrphanRows
<1>1. OrphanInv => NoOrphanRows
  BY DEF OrphanInv
<1>. QED
  BY <1>1, OrphanAlways, PTL

-----------------------------------------------------------------------------
(* A private room is entered by invitation only.                           *)

\* What a request in flight knows about its caller's right to enter.
MayEnter(q) ==
    /\ q.op = "accept" => q.by \in invited
    /\ q.op = "join" => room.status # "absent" /\ (Live => ~room.private)

PrivateInv ==
    /\ PrivateByInvitation
    /\ \A u \in Users : invite[u] # None => u \in invited
    /\ \A r \in Requests : MayEnter(req[r])

LEMMA PrivateRead ==
    ASSUME TypeOK, PrivateInv, UNCHANGED tables, NEW r \in Requests, NEW new,
           req' = [req EXCEPT ![r] = new], MayEnter(new)
    PROVE  PrivateInv'
<1>1. \A s \in Requests : req'[s] = new \/ req'[s] = req[s]
  BY DEF TypeOK
<1>. QED
  BY <1>1 DEF PrivateInv, PrivateByInvitation, MayEnter, Live, tables

LEMMA PrivateOpen ==
    ASSUME TypeOK, PrivateInv, NEW r \in Requests, NEW op, NEW by, NEW on,
           NEW pc, NEW row, NEW rec, Open(r, op, by, on, pc, row, rec),
           op = "accept" => by \in invited,
           op = "join" => Live /\ ~room.private
    PROVE  PrivateInv'
<1>. DEFINE new == [op |-> op, pc |-> pc, by |-> by, on |-> on, row |-> row,
                    adm |-> row # None /\ admin[by], rec |-> rec]
<1>1. MayEnter(new)
  BY DEF MayEnter, Live
<1>2. req' = [req EXCEPT ![r] = new] /\ UNCHANGED tables
  BY DEF Open
<1>. HIDE DEF new
<1>. QED
  BY <1>1, <1>2, PrivateRead

LEMMA PrivateFinish ==
    ASSUME TypeOK, PrivateInv, UNCHANGED tables, NEW r \in Requests, Finish(r)
    PROVE  PrivateInv'
BY PrivateRead DEF Finish, MayEnter, Idle

\* A request that goes on keeps its endpoint and its caller.
LEMMA PrivateMove ==
    ASSUME TypeOK, PrivateInv, UNCHANGED tables, NEW r \in Requests, NEW new,
           req' = [req EXCEPT ![r] = new],
           new.op = req[r].op, new.by = req[r].by
    PROVE  PrivateInv'
<1>1. MayEnter(new)
  BY DEF PrivateInv, MayEnter
<1>. QED
  BY <1>1, PrivateRead

LEMMA PrivateCheck ==
    ASSUME TypeOK, PrivateInv, NEW r \in Requests, NEW pc, NEW ok,
           NEW op \in AllOps, NEW at, At(r, op, at), Check(r, ok, pc)
    PROVE  PrivateInv'
<1>1. CASE Finish(r)
  BY <1>1, PrivateFinish DEF Check
<1>2. CASE Advance(r, pc)
  <2>. DEFINE new == [req[r] EXCEPT !.pc = pc]
  <2>1. new.op = req[r].op /\ new.by = req[r].by
    BY AtInFlight DEF InFlight
  <2>2. req' = [req EXCEPT ![r] = new] /\ UNCHANGED tables
    BY <1>2 DEF Advance, Check
  <2>. HIDE DEF new
  <2>. QED
    BY <2>1, <2>2, PrivateMove
<1>. QED
  BY <1>1, <1>2 DEF Check

LEMMA PrivateLoad ==
    ASSUME TypeOK, PrivateInv, UNCHANGED tables, NEW r \in Requests, NEW u,
           NEW pc, NEW op \in AllOps, NEW at, At(r, op, at), LoadMember(r, u, pc)
    PROVE  PrivateInv'
<1>. DEFINE adm == IF u = req[r].by /\ member[u] = req[r].row
                   THEN req[r].adm ELSE admin[u]
            new == [req[r] EXCEPT !.pc = pc, !.row = member[u], !.adm = adm]
<1>1. req' = [req EXCEPT ![r] = new]
  BY DEF LoadMember
<1>. HIDE DEF adm
<1>2. new.op = req[r].op /\ new.by = req[r].by
  BY AtInFlight DEF InFlight
<1>. HIDE DEF new
<1>. QED
  BY <1>1, <1>2, PrivateMove

LEMMA PrivateReads ==
    ASSUME TypeOK, PrivateInv, NEW r \in Requests,
           \/ \E u \in Users :
                 \/ CreateCheckName(r, u) \/ JoinReadRoom(r, u)
                 \/ LeaveReadRoom(r, u) \/ DeleteRoomRead(r, u)
                 \/ AcceptLoadInvite(r, u) \/ DeleteAccountRead(r, u)
           \/ \E u, v \in Users :
                 \/ BanRequireAdmin(r, u, v) \/ UnbanRequireAdmin(r, u, v)
                 \/ GrantReadRoom(r, u, v) \/ RevokeReadRoom(r, u, v)
                 \/ InviteCheckMember(r, u, v)
           \/ JoinCheckBan(r) \/ JoinCheckMember(r) \/ BanCheckOwner(r)
           \/ InviteFindUser(r) \/ InviteCheckTarget(r) \/ InviteCheckBan(r)
           \/ InviteCheckInvite(r) \/ DeleteAccountLoadRooms(r)
           \/ LeaveLoadMember(r) \/ BanLoadMember(r) \/ AcceptLoadMember(r)
           \/ RevokeCheckCaller(r) \/ RoleLoadMember(r)
           \/ BanLoadBan(r) \/ UnbanLoadBan(r)
    PROVE  PrivateInv'
<1>1. ASSUME NEW u \in Users,
             \/ CreateCheckName(r, u) \/ JoinReadRoom(r, u)
             \/ LeaveReadRoom(r, u) \/ DeleteRoomRead(r, u)
             \/ AcceptLoadInvite(r, u) \/ DeleteAccountRead(r, u)
      PROVE  PrivateInv'
  <2>1. CASE AcceptLoadInvite(r, u)
    BY <2>1, PrivateOpen DEF AcceptLoadInvite, PrivateInv
  <2>2. CASE JoinReadRoom(r, u)
    BY <2>2, PrivateOpen DEF JoinReadRoom
  <2>. QED
    BY <1>1, <2>1, <2>2, PrivateOpen DEF CreateCheckName, LeaveReadRoom,
       DeleteRoomRead, DeleteAccountRead
<1>2. ASSUME NEW u \in Users, NEW v \in Users,
             \/ BanRequireAdmin(r, u, v) \/ UnbanRequireAdmin(r, u, v)
             \/ GrantReadRoom(r, u, v) \/ RevokeReadRoom(r, u, v)
             \/ InviteCheckMember(r, u, v)
      PROVE  PrivateInv'
  BY <1>2, PrivateOpen DEF BanRequireAdmin, UnbanRequireAdmin, RequireAdmin,
     GrantReadRoom, RevokeReadRoom, InviteCheckMember
<1>3. CASE \/ JoinCheckBan(r) \/ JoinCheckMember(r) \/ BanCheckOwner(r)
           \/ InviteFindUser(r) \/ InviteCheckTarget(r) \/ InviteCheckBan(r)
           \/ InviteCheckInvite(r) \/ DeleteAccountLoadRooms(r)
  BY <1>3, PrivateCheck DEF JoinCheckBan, JoinCheckMember, BanCheckOwner,
     InviteFindUser, InviteCheckTarget, InviteCheckBan, InviteCheckInvite,
     DeleteAccountLoadRooms, AllOps
<1>4. CASE LeaveLoadMember(r) \/ BanLoadMember(r) \/ AcceptLoadMember(r)
  BY <1>4, PrivateLoad, PrivateFinish
     DEF LeaveLoadMember, BanLoadMember, AcceptLoadMember, AllOps
<1>5. CASE RevokeCheckCaller(r) \/ RoleLoadMember(r)
  BY <1>5, PrivateLoad, PrivateFinish
     DEF RevokeCheckCaller, RoleLoadMember, AllOps
<1>6. CASE BanLoadBan(r)
  <2>. DEFINE new == [req[r] EXCEPT !.pc = "target", !.rec = ban[req[r].on]]
  <2>1. /\ req' = [req EXCEPT ![r] = new] /\ UNCHANGED tables
        /\ new.op = req[r].op /\ new.by = req[r].by
    BY <1>6, AtInFlight DEF BanLoadBan, AllOps, InFlight
  <2>. HIDE DEF new
  <2>. QED
    BY <2>1, PrivateMove
<1>7. CASE UnbanLoadBan(r)
  <2>. DEFINE found == [req[r] EXCEPT !.pc = "commit", !.rec = ban[req[r].on]]
  <2>1. found.op = req[r].op /\ found.by = req[r].by
    BY <1>7, AtInFlight DEF UnbanLoadBan, AllOps, InFlight
  <2>2. UNCHANGED tables /\ (Finish(r) \/ req' = [req EXCEPT ![r] = found])
    BY <1>7 DEF UnbanLoadBan, Finish
  <2>. HIDE DEF found
  <2>. QED
    BY <2>1, <2>2, PrivateMove, PrivateFinish
<1>. QED
  BY <1>1, <1>2, <1>3, <1>4, <1>5, <1>6, <1>7

\* A last step: the room is as before, nobody's invitation is forgotten, new
\* members of a private room were invited and new invitations are recorded.
LEMMA PrivateCommit ==
    ASSUME TypeOK, PrivateInv, NEW r \in Requests, Finish(r), room' = room,
           invited \subseteq invited',
           Live /\ room.private => \A v \in Users :
              member'[v] # None => member[v] # None \/ v \in invited,
           \A v \in Users : invite'[v] # None => invite[v] # None \/ v \in invited'
    PROVE  PrivateInv'
<1>1. \A s \in Requests : req'[s] = Idle \/ req'[s] = req[s]
  BY DEF TypeOK, Finish
<1>2. \A s \in Requests : MayEnter(req[s])'
  BY <1>1 DEF PrivateInv, MayEnter, Idle, Live
<1>3. PrivateByInvitation'
  BY DEF PrivateInv, PrivateByInvitation, Live
<1>4. \A v \in Users : invite'[v] # None => v \in invited'
  BY DEF PrivateInv
<1>. QED
  BY <1>2, <1>3, <1>4 DEF PrivateInv

\* A last step that ends the room.
LEMMA PrivateDrop ==
    ASSUME TypeOK, PrivateInv, NEW r \in Requests, Finish(r), DropRoom,
           invited' = invited
    PROVE  PrivateInv'
<1>1. \A s \in Requests : req'[s] = Idle \/ req'[s] = req[s]
  BY DEF TypeOK, Finish
<1>2. room'.status = "deleted"
  BY DEF DropRoom, TypeOK, RoomRecord
<1>. QED
  BY <1>1, <1>2 DEF PrivateInv, PrivateByInvitation, MayEnter, Idle, Live,
     DropRoom, NoRows

LEMMA PrivateWrites ==
    ASSUME TypeOK, NoOrphanRows, PrivateInv, NEW r \in Requests,
           \/ CreateCommit(r) \/ JoinCommit(r) \/ LeaveCommit(r)
           \/ DeleteRoomCommit(r) \/ BanCommit(r) \/ UnbanCommit(r)
           \/ RoleCommit(r) \/ InviteCommit(r) \/ AcceptCommit(r)
           \/ DeleteAccountCommit(r)
    PROVE  PrivateInv'
<1>. DEFINE u == req[r].by
<1>1. CASE CreateCommit(r)
  <2>1. CASE room.status = "absent" /\ u \in accounts
    <3>1. PICK private \in BOOLEAN, x \in FreshMemberKeys :
            /\ room' = [status |-> "live", owner |-> u, private |-> private]
            /\ member' = [member EXCEPT ![u] = x]
      BY <1>1, <2>1 DEF CreateCommit
    <3>2. Finish(r) /\ UNCHANGED <<invite, invited>>
      BY <1>1 DEF CreateCommit
    <3>3. PrivateByInvitation'
      BY <2>1, <3>1 DEF PrivateByInvitation, NoOrphanRows, Live, TypeOK
    <3>4. \A s \in Requests : req'[s] = Idle \/ req'[s] = req[s]
      BY <3>2 DEF TypeOK, Finish
    <3>5. \A s \in Requests : MayEnter(req[s])'
      BY <2>1, <3>2, <3>4 DEF PrivateInv, MayEnter, Idle
    <3>. QED
      BY <3>2, <3>3, <3>5 DEF PrivateInv
  <2>2. CASE ~(room.status = "absent" /\ u \in accounts)
    BY <1>1, <2>2, PrivateFinish DEF CreateCommit, tables
  <2>. QED
    BY <2>1, <2>2
<1>2. CASE JoinCommit(r)
  <2>1. Live => ~room.private
    BY <1>2 DEF JoinCommit, At, PrivateInv, MayEnter
  <2>. QED
    BY <1>2, <2>1, PrivateCommit DEF JoinCommit
<1>3. CASE LeaveCommit(r)
  <2>1. \A v \in Users : member'[v] # None => member[v] # None
    BY <1>3 DEF LeaveCommit, DeleteMember, TypeOK
  <2>. QED
    BY <1>3, <2>1, PrivateCommit DEF LeaveCommit
<1>4. CASE DeleteRoomCommit(r)
  BY <1>4, PrivateDrop, PrivateCommit DEF DeleteRoomCommit
<1>5. CASE BanCommit(r)
  <2>1. \A v \in Users : member'[v] # None => member[v] # None
    BY <1>5 DEF BanCommit, DeleteMember, TypeOK
  <2>. QED
    BY <1>5, <2>1, PrivateCommit DEF BanCommit
<1>6. CASE UnbanCommit(r)
  BY <1>6, PrivateCommit DEF UnbanCommit
<1>7. CASE RoleCommit(r)
  BY <1>7, PrivateCommit DEF RoleCommit
<1>8. CASE InviteCommit(r)
  <2>1. \A v \in Users : invite'[v] # None => invite[v] # None \/ v \in invited'
    BY <1>8 DEF InviteCommit, TypeOK
  <2>2. invited \subseteq invited'
    BY <1>8 DEF InviteCommit
  <2>. QED
    BY <1>8, <2>1, <2>2, PrivateCommit DEF InviteCommit
<1>9. CASE AcceptCommit(r)
  <2>1. u \in invited
    BY <1>9 DEF AcceptCommit, At, PrivateInv, MayEnter
  <2>2. \A v \in Users : member'[v] # None => member[v] # None \/ v = u
    BY <1>9 DEF AcceptCommit, InsertMember, TypeOK
  <2>3. \A v \in Users : invite'[v] # None => invite[v] # None
    BY <1>9 DEF AcceptCommit, TypeOK
  <2>. QED
    BY <1>9, <2>1, <2>2, <2>3, PrivateCommit DEF AcceptCommit
<1>10. CASE DeleteAccountCommit(r)
  <2>1. CASE Live /\ room.owner = u /\ u \in accounts
    BY <1>10, <2>1, PrivateDrop DEF DeleteAccountCommit
  <2>2. CASE ~(Live /\ room.owner = u /\ u \in accounts)
    <3>1. /\ \A v \in Users : member'[v] # None => member[v] # None
          /\ \A v \in Users : invite'[v] # None => invite[v] # None
      BY <1>10, <2>2 DEF DeleteAccountCommit, TypeOK
    <3>2. Finish(r) /\ UNCHANGED <<room, invited>>
      BY <1>10, <2>2 DEF DeleteAccountCommit
    <3>. QED
      BY <3>1, <3>2, PrivateCommit
  <2>. QED
    BY <2>1, <2>2
<1>. QED
  BY <1>1, <1>2, <1>3, <1>4, <1>5, <1>6, <1>7, <1>8, <1>9, <1>10

LEMMA PrivateAlways == Spec => []PrivateInv
<1>1. Init => PrivateInv
  BY DEF Init, PrivateInv, PrivateByInvitation, Live, NoRows, MayEnter, Idle
<1>2. TypeOK /\ NoOrphanRows /\ PrivateInv /\ [Next]_vars => PrivateInv'
  <2>. SUFFICES ASSUME TypeOK, NoOrphanRows, PrivateInv, [Next]_vars
                PROVE  PrivateInv'
    OBVIOUS
  <2>1. CASE UNCHANGED vars
    BY <2>1 DEF vars, tables, PrivateInv, PrivateByInvitation, MayEnter, Live
  <2>2. ASSUME NEW r \in Requests, CreateRoom(r) \/ JoinRoom(r) \/ LeaveRoom(r)
               \/ DeleteRoom(r) \/ BanMember(r) \/ UnbanMember(r)
               \/ ChangeRole(r) \/ InviteUser(r) \/ AcceptInvite(r)
               \/ DeleteAccount(r)
        PROVE  PrivateInv'
    <3>1. CASE CreateRoom(r) \/ JoinRoom(r) \/ LeaveRoom(r) \/ DeleteRoom(r)
      BY <3>1, PrivateReads, PrivateWrites
         DEF CreateRoom, JoinRoom, LeaveRoom, DeleteRoom
    <3>2. CASE BanMember(r) \/ UnbanMember(r) \/ ChangeRole(r)
      BY <3>2, PrivateReads, PrivateWrites DEF BanMember, UnbanMember, ChangeRole
    <3>3. CASE InviteUser(r) \/ AcceptInvite(r) \/ DeleteAccount(r)
      BY <3>3, PrivateReads, PrivateWrites
         DEF InviteUser, AcceptInvite, DeleteAccount
    <3>. QED
      BY <2>2, <3>1, <3>2, <3>3
  <2>. QED
    BY <2>1, <2>2 DEF Next
<1>. QED
  BY <1>1, <1>2, TypeCorrect, RowsNeverOrphaned, PTL DEF Spec

\* Whoever is a member of a private room owns it or was invited to it, for any
\* number of concurrent requests.
THEOREM PrivateRoomsByInvitation == Spec => []PrivateByInvitation
<1>1. PrivateInv => PrivateByInvitation
  BY DEF PrivateInv
<1>. QED
  BY <1>1, PrivateAlways, PTL

-----------------------------------------------------------------------------
(* A flag is raised by the owner's grant, on the row it has loaded.        *)

\* A grant was begun by the owner of the room, who never changes.
ByOwner(q) == q.op = "grant" => room.status # "absent" /\ q.by = room.owner
GrantInv == \A r \in Requests : ByOwner(req[r])

\* Grants are begun by the owner of a live room and keep their caller.
GrantsKept ==
    \A s \in Requests : req'[s].op = "grant" =>
        \/ req[s].op = "grant" /\ req'[s].by = req[s].by
        \/ Live /\ req'[s].by = room.owner

\* The room stays as it is, is created, or ends with its owner on record.
RoomMoves == \/ UNCHANGED room
             \/ room.status = "absent"
             \/ room'.status # "absent" /\ room'.owner = room.owner

LEMMA GrantMove ==
    ASSUME TypeOK, NEW r \in Requests, NEW new, req' = [req EXCEPT ![r] = new],
           new.op = "grant" => \/ req[r].op = "grant" /\ new.by = req[r].by
                               \/ Live /\ new.by = room.owner
    PROVE  GrantsKept
<1>1. \A s \in Requests : req'[s] = IF s = r THEN new ELSE req[s]
  BY DEF TypeOK
<1>. QED
  BY <1>1 DEF GrantsKept

LEMMA GrantFinish ==
    ASSUME TypeOK, NEW r \in Requests, Finish(r)
    PROVE  GrantsKept
BY GrantMove DEF Finish, Idle

LEMMA GrantOpen ==
    ASSUME TypeOK, NEW r \in Requests, NEW op, NEW by, NEW on,
           NEW pc, NEW row, NEW rec, Open(r, op, by, on, pc, row, rec),
           op = "grant" => Live /\ by = room.owner
    PROVE  GrantsKept /\ UNCHANGED tables
<1>. DEFINE new == [op |-> op, pc |-> pc, by |-> by, on |-> on, row |-> row,
                    adm |-> row # None /\ admin[by], rec |-> rec]
<1>1. new.op = op /\ new.by = by
  OBVIOUS
<1>2. req' = [req EXCEPT ![r] = new] /\ UNCHANGED tables
  BY DEF Open
<1>. HIDE DEF new
<1>. QED
  BY <1>1, <1>2, GrantMove

LEMMA GrantCheck ==
    ASSUME TypeOK, NEW r \in Requests, NEW pc, NEW ok,
           NEW op \in AllOps, NEW at, At(r, op, at), Check(r, ok, pc)
    PROVE  GrantsKept /\ UNCHANGED tables
<1>1. CASE Finish(r)
  BY <1>1, GrantFinish DEF Check
<1>2. CASE Advance(r, pc)
  <2>. DEFINE new == [req[r] EXCEPT !.pc = pc]
  <2>1. new.op = req[r].op /\ new.by = req[r].by
    BY AtInFlight DEF InFlight
  <2>2. req' = [req EXCEPT ![r] = new]
    BY <1>2 DEF Advance
  <2>. HIDE DEF new
  <2>. QED
    BY <2>1, <2>2, GrantMove DEF Check
<1>. QED
  BY <1>1, <1>2 DEF Check

LEMMA GrantLoad ==
    ASSUME TypeOK, NEW r \in Requests, NEW u,
           NEW pc, NEW op \in AllOps, NEW at, At(r, op, at), LoadMember(r, u, pc)
    PROVE  GrantsKept
<1>. DEFINE adm == IF u = req[r].by /\ member[u] = req[r].row
                   THEN req[r].adm ELSE admin[u]
            new == [req[r] EXCEPT !.pc = pc, !.row = member[u], !.adm = adm]
<1>1. req' = [req EXCEPT ![r] = new]
  BY DEF LoadMember
<1>. HIDE DEF adm
<1>2. new.op = req[r].op /\ new.by = req[r].by
  BY AtInFlight DEF InFlight
<1>. HIDE DEF new
<1>. QED
  BY <1>1, <1>2, GrantMove

\* The steps that only read.
LEMMA GrantReads ==
    ASSUME TypeOK, NEW r \in Requests,
           \/ \E u \in Users :
                 \/ CreateCheckName(r, u) \/ JoinReadRoom(r, u)
                 \/ LeaveReadRoom(r, u) \/ DeleteRoomRead(r, u)
                 \/ AcceptLoadInvite(r, u) \/ DeleteAccountRead(r, u)
           \/ \E u, v \in Users :
                 \/ BanRequireAdmin(r, u, v) \/ UnbanRequireAdmin(r, u, v)
                 \/ GrantReadRoom(r, u, v) \/ RevokeReadRoom(r, u, v)
                 \/ InviteCheckMember(r, u, v)
           \/ JoinCheckBan(r) \/ JoinCheckMember(r) \/ BanCheckOwner(r)
           \/ InviteFindUser(r) \/ InviteCheckTarget(r) \/ InviteCheckBan(r)
           \/ InviteCheckInvite(r) \/ DeleteAccountLoadRooms(r)
           \/ LeaveLoadMember(r) \/ BanLoadMember(r) \/ AcceptLoadMember(r)
           \/ RevokeCheckCaller(r) \/ RoleLoadMember(r)
           \/ BanLoadBan(r) \/ UnbanLoadBan(r)
    PROVE  GrantsKept /\ UNCHANGED tables
<1>1. ASSUME NEW u \in Users,
             \/ CreateCheckName(r, u) \/ JoinReadRoom(r, u)
             \/ LeaveReadRoom(r, u) \/ DeleteRoomRead(r, u)
             \/ AcceptLoadInvite(r, u) \/ DeleteAccountRead(r, u)
      PROVE  GrantsKept /\ UNCHANGED tables
  BY <1>1, GrantOpen DEF CreateCheckName, JoinReadRoom, LeaveReadRoom,
     DeleteRoomRead, AcceptLoadInvite, DeleteAccountRead
<1>2. ASSUME NEW u \in Users, NEW v \in Users,
             \/ BanRequireAdmin(r, u, v) \/ UnbanRequireAdmin(r, u, v)
             \/ GrantReadRoom(r, u, v) \/ RevokeReadRoom(r, u, v)
             \/ InviteCheckMember(r, u, v)
      PROVE  GrantsKept /\ UNCHANGED tables
  BY <1>2, GrantOpen DEF BanRequireAdmin, UnbanRequireAdmin, RequireAdmin,
     GrantReadRoom, RevokeReadRoom, InviteCheckMember
<1>3. CASE \/ JoinCheckBan(r) \/ JoinCheckMember(r) \/ BanCheckOwner(r)
           \/ InviteFindUser(r) \/ InviteCheckTarget(r) \/ InviteCheckBan(r)
           \/ InviteCheckInvite(r) \/ DeleteAccountLoadRooms(r)
  BY <1>3, GrantCheck DEF JoinCheckBan, JoinCheckMember, BanCheckOwner,
     InviteFindUser, InviteCheckTarget, InviteCheckBan, InviteCheckInvite,
     DeleteAccountLoadRooms, AllOps
<1>4. CASE LeaveLoadMember(r) \/ BanLoadMember(r) \/ AcceptLoadMember(r)
  BY <1>4, GrantLoad, GrantFinish
     DEF LeaveLoadMember, BanLoadMember, AcceptLoadMember, AllOps
<1>5. CASE RevokeCheckCaller(r) \/ RoleLoadMember(r)
  BY <1>5, GrantLoad, GrantFinish DEF RevokeCheckCaller, RoleLoadMember, AllOps
<1>6. CASE BanLoadBan(r)
  <2>. DEFINE new == [req[r] EXCEPT !.pc = "target", !.rec = ban[req[r].on]]
  <2>1. /\ req' = [req EXCEPT ![r] = new] /\ UNCHANGED tables
        /\ new.op = req[r].op /\ new.by = req[r].by
    BY <1>6, AtInFlight DEF BanLoadBan, AllOps, InFlight
  <2>. HIDE DEF new
  <2>. QED
    BY <2>1, GrantMove
<1>7. CASE UnbanLoadBan(r)
  <2>. DEFINE found == [req[r] EXCEPT !.pc = "commit", !.rec = ban[req[r].on]]
  <2>1. found.op = req[r].op /\ found.by = req[r].by
    BY <1>7, AtInFlight DEF UnbanLoadBan, AllOps, InFlight
  <2>2. UNCHANGED tables /\ (Finish(r) \/ req' = [req EXCEPT ![r] = found])
    BY <1>7 DEF UnbanLoadBan, Finish
  <2>. HIDE DEF found
  <2>. QED
    BY <2>1, <2>2, GrantMove, GrantFinish
<1>. QED
  BY <1>1, <1>2, <1>3, <1>4, <1>5, <1>6, <1>7

\* What raises a flag.
Raised(u) == admin'[u] /\ ~admin[u]
ByGrant(u) == \E r \in Requests : /\ req[r].op = "grant" /\ req[r].on = u
                                  /\ req[r].row = member[u]

\* The last steps: only a grant raises a flag in a room that exists already.
LEMMA GrantWrites ==
    ASSUME TypeOK, NEW r \in Requests,
           \/ CreateCommit(r) \/ JoinCommit(r) \/ LeaveCommit(r)
           \/ DeleteRoomCommit(r) \/ BanCommit(r) \/ UnbanCommit(r)
           \/ RoleCommit(r) \/ InviteCommit(r) \/ AcceptCommit(r)
           \/ DeleteAccountCommit(r)
    PROVE  /\ GrantsKept /\ RoomMoves
           /\ Live => \A u \in Users : Raised(u) => ByGrant(u)
<1>1. Finish(r)
  BY DEF CreateCommit, JoinCommit, LeaveCommit, DeleteRoomCommit, BanCommit,
     UnbanCommit, RoleCommit, InviteCommit, AcceptCommit, DeleteAccountCommit
<1>2. GrantsKept
  BY <1>1, GrantFinish
<1>3. RoomMoves
  <2>1. DropRoom => room'.status # "absent" /\ room'.owner = room.owner
    BY DEF DropRoom, TypeOK, RoomRecord
  <2>. QED
    BY <2>1 DEF RoomMoves, CreateCommit, JoinCommit, LeaveCommit,
       DeleteRoomCommit, BanCommit, UnbanCommit, RoleCommit, InviteCommit,
       AcceptCommit, DeleteAccountCommit
<1>4. ASSUME Live, NEW u \in Users, Raised(u)
      PROVE  ByGrant(u)
  <2>1. CASE RoleCommit(r)
    <3>. DEFINE q == req[r]
    <3>1. admin' = [admin EXCEPT ![q.on] = (q.op = "grant")] /\ member[q.on] = q.row
      BY <1>4, <2>1 DEF RoleCommit, SetAdmin, Raised
    <3>2. q.on = u /\ q.op = "grant"
      BY <1>4, <3>1 DEF Raised, TypeOK
    <3>. QED
      BY <3>1, <3>2 DEF ByGrant
  <2>2. CASE CreateCommit(r) \/ UnbanCommit(r) \/ InviteCommit(r)
    BY <1>4, <2>2 DEF CreateCommit, UnbanCommit, InviteCommit, Live, Raised
  <2>3. CASE JoinCommit(r) \/ AcceptCommit(r)
    BY <1>4, <2>3 DEF JoinCommit, AcceptCommit, InsertMember, Raised, TypeOK
  <2>4. CASE LeaveCommit(r) \/ BanCommit(r)
    BY <1>4, <2>4 DEF LeaveCommit, BanCommit, DeleteMember, Raised, TypeOK
  <2>5. CASE DeleteRoomCommit(r) \/ DeleteAccountCommit(r)
    BY <1>4, <2>5 DEF DeleteRoomCommit, DeleteAccountCommit, DropRoom, Raised, TypeOK
  <2>. QED
    BY <2>1, <2>2, <2>3, <2>4, <2>5
<1>. QED
  BY <1>2, <1>3, <1>4

\* A step of a request either reads or is its last.
LEMMA GrantSteps ==
    ASSUME TypeOK, [Next]_vars
    PROVE  /\ GrantsKept /\ RoomMoves
           /\ Live => \A u \in Users : Raised(u) => ByGrant(u)
<1>1. CASE UNCHANGED vars
  BY <1>1 DEF vars, tables, GrantsKept, RoomMoves, Raised
<1>2. ASSUME GrantsKept, UNCHANGED tables
      PROVE  RoomMoves /\ \A u \in Users : ~ Raised(u)
  BY <1>2 DEF tables, RoomMoves, Raised
<1>3. ASSUME NEW r \in Requests, CreateRoom(r) \/ JoinRoom(r) \/ LeaveRoom(r)
             \/ DeleteRoom(r) \/ BanMember(r) \/ UnbanMember(r)
             \/ ChangeRole(r) \/ InviteUser(r) \/ AcceptInvite(r)
             \/ DeleteAccount(r)
      PROVE  /\ GrantsKept /\ RoomMoves
             /\ Live => \A u \in Users : Raised(u) => ByGrant(u)
  <2>1. CASE CreateRoom(r) \/ JoinRoom(r) \/ LeaveRoom(r) \/ DeleteRoom(r)
    BY <1>2, <2>1, GrantReads, GrantWrites
       DEF CreateRoom, JoinRoom, LeaveRoom, DeleteRoom
  <2>2. CASE BanMember(r) \/ UnbanMember(r) \/ ChangeRole(r)
    BY <1>2, <2>2, GrantReads, GrantWrites DEF BanMember, UnbanMember, ChangeRole
  <2>3. CASE InviteUser(r) \/ AcceptInvite(r) \/ DeleteAccount(r)
    BY <1>2, <2>3, GrantReads, GrantWrites DEF InviteUser, AcceptInvite, DeleteAccount
  <2>. QED
    BY <1>3, <2>1, <2>2, <2>3
<1>. QED
  BY <1>1, <1>3 DEF Next

\* Nobody inherits the flag of a row that is gone: it reaches the row that the
\* owner's grant has loaded or none, for any number of concurrent requests.
THEOREM GrantsReachTheirRow == Spec => GrantReachesLoadedRow
<1>1. Init => GrantInv
  BY DEF Init, GrantInv, ByOwner, Idle
<1>2. TypeOK /\ GrantInv /\ [Next]_vars => GrantInv'
  <2>. SUFFICES ASSUME TypeOK, GrantInv, [Next]_vars, NEW s \in Requests
                PROVE  ByOwner(req[s])'
    BY DEF GrantInv
  <2>1. GrantsKept /\ RoomMoves
    BY GrantSteps
  <2>2. ByOwner(req[s])
    BY DEF GrantInv
  <2>3. CASE req'[s].op = "grant"
    <3>1. room.status # "absent" /\ req'[s].by = room.owner
      BY <2>1, <2>2, <2>3 DEF GrantsKept, ByOwner, Live
    <3>2. room'.status # "absent" /\ room'.owner = room.owner
      BY <2>1, <3>1 DEF RoomMoves
    <3>. QED
      BY <3>1, <3>2 DEF ByOwner
  <2>. QED
    BY <2>3 DEF ByOwner
<1>3. TypeOK /\ GrantInv /\ [Next]_vars =>
        [Live => \A u \in Users :
            admin'[u] /\ ~admin[u] =>
                \E r \in Requests : /\ req[r].op = "grant" /\ req[r].on = u
                                    /\ req[r].by = room.owner
                                    /\ req[r].row = member[u]]_vars
  BY GrantSteps DEF GrantInv, ByOwner, Raised, ByGrant
<1>. QED
  BY <1>1, <1>2, <1>3, TypeCorrect, PTL DEF Spec, GrantReachesLoadedRow

-----------------------------------------------------------------------------
(* The room keeps the promise of RoomPromise, step by step.                *)

People == {u \in Users : member[u] # None}
Heads == {u \in Users : admin[u]}

\* What the commits of the requests in flight may rely on.
SoundInv == TypeOK /\ OwnerInv /\ OrphanInv /\ PrivateInv

\* Nothing that the promise is about has changed.
Unseen == UNCHANGED <<accounts, room, invited, member, admin>>

LEMMA UnseenStutters == Unseen => UNCHANGED Promise!roomVars
BY DEF Unseen, Promise!roomVars

\* What is written of members and administrators is what users see.
LEMMA SeenIs ==
    ASSUME TypeOK, NEW u \in Users
    PROVE  /\ \A x : member' = [member EXCEPT ![u] = x] =>
                 /\ x = None => People' = People \ {u}
                 /\ x # None => People' = People \cup {u}
           /\ admin' = [admin EXCEPT ![u] = TRUE] => Heads' = Heads \cup {u}
           /\ admin' = [admin EXCEPT ![u] = FALSE] => Heads' = Heads \ {u}
BY DEF TypeOK, People, Heads

\* Who is entered by a commit may enter.
LEMMA InsertEnters ==
    ASSUME SoundInv, NEW u \in Users, MayInsert(member, u), InsertMember(u),
           room.private => u \in invited, UNCHANGED <<accounts, room, invited>>
    PROVE  Promise!Enter(u)
<1>1. PICK x \in FreshMemberKeys :
         member' = [member EXCEPT ![u] = x] /\ admin' = [admin EXCEPT ![u] = FALSE]
  BY DEF InsertMember
<1>2. x # None /\ u \notin People /\ u \notin Heads
  BY <1>1, NoneAssumption
     DEF FreshMemberKeys, People, Heads, MayInsert, SoundInv, OrphanInv, NoOrphanRows
<1>3. People' = People \cup {u} /\ Heads' = Heads
  <2>1. People' = People \cup {u} /\ Heads' = Heads \ {u}
    BY <1>1, <1>2, SeenIs DEF SoundInv
  <2>. QED
    BY <1>2, <2>1
<1>. QED
  BY <1>2, <1>3 DEF Promise!Enter, People, Heads, MayInsert, Live

LEMMA DeleteDeparts ==
    ASSUME SoundInv, NEW u \in Users, NEW x, DeleteMember(u, x),
           Live => u # room.owner, UNCHANGED <<accounts, room, invited>>
    PROVE  Promise!Depart(u) \/ Unseen
<1>1. CASE x # None /\ member[u] = x
  <2>1. member' = [member EXCEPT ![u] = None] /\ admin' = [admin EXCEPT ![u] = FALSE]
    BY <1>1 DEF DeleteMember
  <2>2. People' = People \ {u} /\ Heads' = Heads \ {u}
    BY <2>1, SeenIs DEF SoundInv
  <2>3. u \in People /\ u # room.owner
    BY <1>1 DEF People, SoundInv, OrphanInv, NoOrphanRows
  <2>. QED
    BY <2>2, <2>3 DEF Promise!Depart, People, Heads
<1>2. CASE ~ (x # None /\ member[u] = x)
  BY <1>2 DEF DeleteMember, Unseen
<1>. QED
  BY <1>1, <1>2

LEMMA DropEmpties ==
    ASSUME TypeOK, Live, DropRoom
    PROVE  /\ Promise!Empty
           /\ room'.owner = room.owner /\ room'.private = room.private
BY DEF TypeOK, RoomRecord, Live, DropRoom, NoRows, Promise!Empty

LEMMA CommitSeen ==
    ASSUME SoundInv, NEW r \in Requests,
           \/ CreateCommit(r) \/ JoinCommit(r) \/ LeaveCommit(r)
           \/ DeleteRoomCommit(r) \/ BanCommit(r) \/ UnbanCommit(r)
           \/ RoleCommit(r) \/ InviteCommit(r) \/ AcceptCommit(r)
           \/ DeleteAccountCommit(r)
    PROVE  Promise!Next \/ Unseen
<1>0. PICK u \in Users, v \in Users : u = req[r].by /\ v = req[r].on
  BY AtInFlight DEF SoundInv, AllOps, CreateCommit, JoinCommit, LeaveCommit, DeleteRoomCommit,
     BanCommit, UnbanCommit, RoleCommit, InviteCommit, AcceptCommit, DeleteAccountCommit
<1>. USE <1>0
<1>1. CASE CreateCommit(r)
  <2>1. CASE room.status = "absent" /\ u \in accounts
    <3>1. PICK private \in BOOLEAN, x \in FreshMemberKeys :
            /\ room' = [status |-> "live", owner |-> u, private |-> private]
            /\ member' = [member EXCEPT ![u] = x]
            /\ admin' = [admin EXCEPT ![u] = TRUE]
      BY <1>1, <2>1 DEF CreateCommit
    <3>2. x # None /\ People = {} /\ Heads = {}
      BY <2>1, <3>1, NoneAssumption
         DEF FreshMemberKeys, People, Heads, SoundInv, OwnerInv, OrphanInv, NoOrphanRows
    <3>3. People' = {u} /\ Heads' = {u}
      BY <3>1, <3>2, SeenIs DEF SoundInv
    <3>4. Promise!Create(u)
      <4>1. /\ room'.status = "live" /\ room'.owner = u /\ room'.private \in BOOLEAN
            /\ UNCHANGED <<accounts, invited>>
        BY <1>1, <3>1 DEF CreateCommit
      <4>. QED
        BY <2>1, <3>3, <4>1 DEF Promise!Create, People, Heads
    <3>. QED
      BY <3>4 DEF Promise!Next
  <2>2. CASE ~ (room.status = "absent" /\ u \in accounts)
    BY <1>1, <2>2 DEF CreateCommit, Unseen
  <2>. QED
    BY <2>1, <2>2
<1>2. CASE JoinCommit(r)
  <2>1. Live => ~ room.private
    <3>1. req[r].op = "join" /\ MayEnter(req[r])
      BY <1>2 DEF JoinCommit, At, SoundInv, PrivateInv
    <3>. QED
      BY <3>1 DEF MayEnter
  <2>2. CASE MayInsert(member, u)
    <3>1. Promise!Enter(u)
      <4>1. InsertMember(u) /\ UNCHANGED <<accounts, room, invited>>
        BY <1>2, <2>2 DEF JoinCommit
      <4>2. ~ room.private
        BY <2>1, <2>2 DEF MayInsert
      <4>. QED
        BY <2>2, <4>1, <4>2, InsertEnters
    <3>. QED
      BY <3>1 DEF Promise!Next
  <2>3. CASE ~ MayInsert(member, u)
    BY <1>2, <2>3 DEF JoinCommit, Unseen
  <2>. QED
    BY <2>2, <2>3
<1>3. CASE LeaveCommit(r)
  <2>1. Live => u # room.owner
    BY <1>3 DEF LeaveCommit, At, SoundInv, OwnerInv, SparesOwner
  <2>. QED
    BY <1>3, <2>1, DeleteDeparts DEF LeaveCommit, Promise!Next
<1>4. CASE DeleteRoomCommit(r)
  <2>1. CASE Live
    BY <1>4, <2>1, DropEmpties DEF DeleteRoomCommit, SoundInv, Promise!Next, Promise!Delete
  <2>2. CASE ~ Live
    BY <1>4, <2>2 DEF DeleteRoomCommit, Unseen
  <2>. QED
    BY <2>1, <2>2
<1>5. CASE BanCommit(r)
  <2>1. Live => v # room.owner
    BY <1>5 DEF BanCommit, At, SoundInv, OwnerInv, SparesOwner
  <2>2. UNCHANGED <<accounts, room, invited>>
    BY <1>5 DEF BanCommit
  <2>3. UNCHANGED <<member, admin>> \/ DeleteMember(v, req[r].row)
    BY <1>5 DEF BanCommit
  <2>. QED
    BY <2>1, <2>2, <2>3, DeleteDeparts DEF Unseen, Promise!Next
<1>6. CASE UnbanCommit(r)
  BY <1>6 DEF UnbanCommit, Unseen
<1>7. CASE RoleCommit(r)
  <2>1. /\ UNCHANGED <<accounts, room, member, invited>>
        /\ SetAdmin(v, req[r].row, req[r].adm, req[r].op = "grant")
        /\ req[r].row # None
    BY <1>7 DEF RoleCommit, At, SoundInv, OrphanInv, HoldsRow
  <2>2. CASE admin' = admin
    BY <2>1, <2>2 DEF Unseen
  <2>3. CASE admin' # admin
    <3>1. admin' = [admin EXCEPT ![v] = (req[r].op = "grant")] /\ v \in People
      BY <2>1, <2>3 DEF SetAdmin, People
    <3>2. CASE req[r].op = "grant"
      <4>1. Heads' = Heads \cup {v}
        BY <3>1, <3>2 DEF Heads, SoundInv, TypeOK
      <4>. QED
        BY <2>1, <3>1, <4>1 DEF Promise!Promote, Promise!Next, People, Heads
    <3>3. CASE req[r].op # "grant"
      <4>1. Heads' = Heads \ {v} /\ v \in Heads
        BY <2>3, <3>1, <3>3 DEF Heads, SoundInv, TypeOK
      <4>2. Live /\ v # room.owner
        BY <1>7, <3>1, <3>3
           DEF RoleCommit, At, People, SoundInv, OwnerInv, SparesOwner, OrphanInv, NoOrphanRows
      <4>. QED
        BY <2>1, <4>1, <4>2 DEF Promise!Demote, Promise!Next, People, Heads
    <3>. QED
      BY <3>2, <3>3
  <2>. QED
    BY <2>2, <2>3
<1>8. CASE InviteCommit(r)
  BY <1>8 DEF InviteCommit, MayInsert, Live, Unseen, Promise!Invite, Promise!Next
<1>9. CASE AcceptCommit(r)
  <2>1. u \in invited /\ UNCHANGED <<accounts, room, invited>>
    BY <1>9 DEF AcceptCommit, At, SoundInv, PrivateInv, MayEnter
  <2>2. UNCHANGED <<member, admin>> \/ (MayInsert(member, u) /\ InsertMember(u))
    BY <1>9 DEF AcceptCommit
  <2>. QED
    BY <2>1, <2>2, InsertEnters DEF Unseen, Promise!Next
<1>10. CASE DeleteAccountCommit(r)
  <2>1. accounts' = accounts \ {u} /\ UNCHANGED invited
    BY <1>10 DEF DeleteAccountCommit
  <2>2. CASE Live /\ room.owner = u /\ u \in accounts
    <3>1. DropRoom
      BY <1>10, <2>2 DEF DeleteAccountCommit
    <3>2. /\ Promise!Empty
          /\ room'.owner = room.owner /\ room'.private = room.private
      BY <2>2, <3>1, DropEmpties DEF SoundInv
    <3>3. Promise!CloseAccount(u)
      BY <2>1, <2>2, <3>2 DEF Live, Promise!CloseAccount
    <3>. QED
      BY <3>3 DEF Promise!Next
  <2>3. CASE ~ (Live /\ room.owner = u /\ u \in accounts)
    <3>1. /\ member' = [member EXCEPT ![u] = None] /\ admin' = [admin EXCEPT ![u] = FALSE]
          /\ room' = room
      BY <1>10, <2>3 DEF DeleteAccountCommit
    <3>2. People' = People \ {u} /\ Heads' = Heads \ {u}
      BY <3>1, SeenIs DEF SoundInv
    <3>3. CASE u \in accounts
      BY <2>1, <2>3, <3>1, <3>2, <3>3 DEF Promise!CloseAccount, Promise!Next, People, Heads, Live
    <3>4. CASE u \notin accounts
      <4>1. member[u] = None /\ ~ admin[u] /\ accounts' = accounts
        BY <2>1, <3>4 DEF SoundInv, OrphanInv, NoOrphanRows
      <4>. QED
        BY <2>1, <3>1, <4>1 DEF Unseen, SoundInv, TypeOK
    <3>. QED
      BY <3>3, <3>4
  <2>. QED
    BY <2>2, <2>3
<1>. QED
  BY <1>1, <1>2, <1>3, <1>4, <1>5, <1>6, <1>7, <1>8, <1>9, <1>10

\* A step is seen as a step of the promise, or not at all.
LEMMA StepSeen == SoundInv /\ [Next]_vars => [Promise!Next]_(Promise!roomVars)
<1>. SUFFICES ASSUME SoundInv, [Next]_vars
              PROVE  Promise!Next \/ Unseen
  BY UnseenStutters
<1>1. ASSUME UNCHANGED tables
      PROVE  Unseen
  BY <1>1 DEF tables, Unseen
<1>2. ASSUME NEW r \in Requests, CreateRoom(r) \/ JoinRoom(r) \/ LeaveRoom(r)
             \/ DeleteRoom(r) \/ BanMember(r) \/ UnbanMember(r)
             \/ ChangeRole(r) \/ InviteUser(r) \/ AcceptInvite(r)
             \/ DeleteAccount(r)
      PROVE  Promise!Next \/ Unseen
  <2>. USE DEF SoundInv
  <2>1. CASE CreateRoom(r) \/ JoinRoom(r) \/ LeaveRoom(r) \/ DeleteRoom(r)
    BY <1>1, <2>1, GrantReads, CommitSeen
       DEF CreateRoom, JoinRoom, LeaveRoom, DeleteRoom
  <2>2. CASE BanMember(r) \/ UnbanMember(r) \/ ChangeRole(r)
    BY <1>1, <2>2, GrantReads, CommitSeen DEF BanMember, UnbanMember, ChangeRole
  <2>3. CASE InviteUser(r) \/ AcceptInvite(r) \/ DeleteAccount(r)
    BY <1>1, <2>3, GrantReads, CommitSeen DEF InviteUser, AcceptInvite, DeleteAccount
  <2>. QED
    BY <1>2, <2>1, <2>2, <2>3
<1>. QED
  BY <1>1, <1>2 DEF Next, vars

\* However requests interleave between their queries, what users see of the
\* members and administrators of a room is a sequence of whole requests
\* (rooms.py, and delete_account of auth.py:155-163), for any users, requests
\* and endpoints.
THEOREM RoomKeepsPromise == Spec => Implements
<1>1. Init => Promise!Init
  BY DEF Init, Promise!Init, NoRows
<1>2. Spec => []SoundInv
  BY TypeCorrect, OwnerAlways, OrphanAlways, PrivateAlways, PTL DEF SoundInv
<1>. QED
  BY <1>1, <1>2, StepSeen, PTL DEF Spec, Implements, Promise!Spec
=============================================================================

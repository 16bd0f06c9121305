------------------------------ MODULE Contacts ------------------------------
(***************************************************************************)
(* Two people: their friend requests, their friendship, the bans they      *)
(* issue against each other (backend/app/api/v1/endpoints/friends.py) and  *)
(* their personal chat (endpoints/messages.py), until an account is        *)
(* deleted (endpoints/auth.py).  Pairs of people do not influence each     *)
(* other, so one pair is modelled.                                         *)
(*                                                                         *)
(* As in RoomMembership, a request moves from query to query, other        *)
(* requests run between any two of its queries, and its writes reach the   *)
(* tables in its last step.  A loaded row is updated and deleted by its    *)
(* primary key.                                                            *)
(*                                                                         *)
(* Left out: the cached friend lists and the notifications after the       *)
(* commits, which none of these handlers reads.                            *)
(***************************************************************************)
EXTENDS Naturals, FiniteSets

CONSTANTS
    Users,      \* the two people
    Requests,   \* handler slots: the bound on concurrent requests
    Asks,       \* primary keys of friend_requests: the bound on them
    Rows,       \* primary keys of friendships and user_bans
    Ops,        \* the endpoints in use
    None        \* no row, no friend request

AllOps == {"ask", "accept", "reject", "unfriend", "ban", "unban",
           "open", "list", "send", "delete_account"}

ASSUME PairAssumption == \E u, v \in Users : u # v /\ Users = {u, v}
ASSUME NoneAssumption == None \notin Users \cup Rows \cup Asks
ASSUME OpsAssumption  == Ops \subseteq AllOps

VARIABLES
    accounts,    \* table users
    ask,         \* table friend_requests
    friendship,  \* table friendships: the row of the pair, or None
    ban,         \* table user_bans: the row issued by each, or None
    chat,        \* table personal_chats: what was witnessed at its creation
    log,         \* table messages: what was witnessed at their creation
    consent,     \* history: who has asked the other, or accepted the other
    req,         \* the requests in flight
    witnessed    \* history: what has held since each opening or sending began

tables == <<accounts, ask, friendship, ban, chat, log, consent>>
vars == <<tables, req, witnessed>>

Row == Rows \cup {None}
Facts == {"friends", "unbanned"}
Statuses == {"pending", "accepted", "rejected"}
FriendRequest == [sender : Users, status : Statuses]
NoAsk == [sender |-> None, status |-> "none"]
Steps == {"ban", "pending", "friendship", "chat", "commit", "error"}
InFlight == [op : AllOps, pc : Steps, by : Users,
             ask : Asks \cup {None},            \* the friend request in hand
             status : Statuses \cup {"none"},   \* its status as loaded
             row : Row,                         \* the friendship as loaded
             rec : Row,                         \* the ban as loaded
             banned : BOOLEAN]                  \* what the ban lookup said
Idle == [op |-> "none", pc |-> "idle", by |-> None, ask |-> None,
         status |-> "none", row |-> None, rec |-> None, banned |-> FALSE]

Other(u) == CHOOSE v \in Users : v # u

Init ==
    /\ accounts = Users
    /\ ask = [i \in Asks |-> NoAsk]
    /\ friendship = None
    /\ ban = [u \in Users |-> None]
    /\ chat = {}
    /\ log = {}
    /\ consent = {}
    /\ req = [r \in Requests |-> Idle]
    /\ witnessed = [r \in Requests |-> {}]

-----------------------------------------------------------------------------
(* The database. *)

\* Error: no foreign keys to users.
RowsAllowed_Always == TRUE

\* The foreign keys to users accept a row that names both people.
RowsAllowed == accounts = Users

\* uuid4 never repeats a key that a session still holds.
FreshFriendship == {x \in Rows : \A r \in Requests : req[r].row # x}
FreshBan == {x \in Rows : \A r \in Requests : req[r].rec # x}
FreshAsk == {i \in Asks : ask[i] = NoAsk /\ \A r \in Requests : req[r].ask # i}

Bans == {u \in Users : ban[u] # None}
Pending == {i \in Asks : ask[i].status = "pending"}

\* Error: only the bans the caller has issued are found.
BanFound_OneWay(u) == ban[u] # None

\* _is_banned(db, u, other), in both directions.  With a ban in each,
\* scalar_one_or_none raises.
BanFound(u) == Bans # {}
LookupRaises == Cardinality(Bans) > 1

DeleteFriendship(x) ==
    friendship' = IF friendship = x THEN None ELSE friendship

\* What holds now, of what matters to a message.
Now == {f \in Facts : IF f = "friends" THEN friendship # None ELSE Bans = {}}

Witness ==
    witnessed' = [r \in Requests |->
                     IF req'[r].op \in {"open", "send"}
                     THEN witnessed[r] \cup Now' ELSE {}]

-----------------------------------------------------------------------------
(* Moving a request through its handler. *)

At(r, op, pc) == req[r].op = op /\ req[r].pc = pc

Opened(op, u, pc) == [Idle EXCEPT !.op = op, !.by = u, !.pc = pc]

\* get_current_user, with the handler's first query.
Open(r, u, request) ==
    /\ request.op \in Ops
    /\ req[r] = Idle
    /\ u \in accounts
    /\ req' = [req EXCEPT ![r] = request]
    /\ UNCHANGED tables

\* The same for the endpoints that look the other person up by name.
OpenWith(r, op, u, pc) ==
    /\ Other(u) \in accounts
    /\ Open(r, u, Opened(op, u, pc))

Advance(r, pc) == req' = [req EXCEPT ![r].pc = pc]
Finish(r) == req' = [req EXCEPT ![r] = Idle]

\* A check between two queries: go on to the query pc, or raise.
Check(r, ok, pc) ==
    /\ IF ok THEN Advance(r, pc) ELSE Finish(r)
    /\ UNCHANGED tables

LoadFriendship(r, pc) ==
    /\ req' = [req EXCEPT ![r].row = friendship, ![r].pc = pc]
    /\ UNCHANGED tables

-----------------------------------------------------------------------------
\* POST /friends/requests
AskFindUser(r, u) ==
    \E i \in FreshAsk :
        /\ Other(u) \in accounts
        /\ Open(r, u, [Opened("ask", u, "ban") EXCEPT !.ask = i])

AskCheckBan(r) == At(r, "ask", "ban") /\ Check(r, Bans = {}, "pending")

AskCheckPending(r) ==
    At(r, "ask", "pending") /\ Check(r, Pending = {}, "commit")

AskCommit(r) ==
    LET u == req[r].by
    IN /\ At(r, "ask", "commit")
       /\ Finish(r)
       /\ IF RowsAllowed
          THEN /\ ask' = [ask EXCEPT ![req[r].ask] =
                            [sender |-> u, status |-> "pending"]]
               /\ consent' = consent \cup {u}
          ELSE UNCHANGED <<ask, consent>>
       /\ UNCHANGED <<accounts, friendship, ban, chat, log>>

\* POST /friends/requests/{id}/accept and .../reject load the friend request
\* of a receiver in any status, and look neither bans nor friendships up.
\* Error: the caller need not be the receiver.
AnswerLoad_Anybody(r, op, u, i) ==
    /\ ask[i] # NoAsk
    /\ Open(r, u, [Opened(op, u, "commit") EXCEPT
                      !.ask = i, !.status = ask[i].status])

AnswerLoad(r, op, u, i) ==
    /\ ask[i].sender = Other(u)
    /\ Open(r, u, [Opened(op, u, "commit") EXCEPT
                      !.ask = i, !.status = ask[i].status])

\* The ORM updates the status only when the loaded one differs.
SetStatus(r, s) ==
    ask' = IF req[r].status = s THEN ask
           ELSE [ask EXCEPT ![req[r].ask].status = s]

\* A second friendship of the pair violates its unique constraint.
AcceptCommit(r) ==
    /\ At(r, "accept", "commit")
    /\ Finish(r)
    /\ IF friendship = None /\ RowsAllowed
       THEN /\ SetStatus(r, "accepted")
            /\ \E x \in FreshFriendship : friendship' = x
            /\ consent' = consent \cup {req[r].by}
       ELSE UNCHANGED <<ask, friendship, consent>>
    /\ UNCHANGED <<accounts, ban, chat, log>>

\* Error: a status that the enumeration does not have.
RejectCommit_Unknown(r) ==
    /\ At(r, "reject", "commit")
    /\ Finish(r)
    /\ IF accounts = Users THEN SetStatus(r, "declined") ELSE UNCHANGED ask
    /\ UNCHANGED <<accounts, friendship, ban, chat, log, consent>>

\* The row is gone when an account is: the update fails.
RejectCommit(r) ==
    /\ At(r, "reject", "commit")
    /\ Finish(r)
    /\ IF accounts = Users THEN SetStatus(r, "rejected") ELSE UNCHANGED ask
    /\ UNCHANGED <<accounts, friendship, ban, chat, log, consent>>

\* DELETE /friends/{username}
UnfriendLoad(r) ==
    /\ At(r, "unfriend", "friendship")
    /\ IF friendship = None THEN Finish(r) /\ UNCHANGED tables
                            ELSE LoadFriendship(r, "commit")

UnfriendCommit(r) ==
    /\ At(r, "unfriend", "commit")
    /\ Finish(r)
    /\ DeleteFriendship(req[r].row)
    /\ UNCHANGED <<accounts, ask, ban, chat, log, consent>>

\* POST /friends/ban/{username}
BanCheckExisting(r) ==
    /\ At(r, "ban", "ban")
    /\ Check(r, ban[req[r].by] = None, "friendship")

BanLoadFriendship(r) ==
    At(r, "ban", "friendship") /\ LoadFriendship(r, "commit")

\* A failing insert of the ban keeps the friendship.
BanCommit(r) ==
    LET u == req[r].by
    IN /\ At(r, "ban", "commit")
       /\ Finish(r)
       /\ IF ban[u] = None /\ RowsAllowed
          THEN /\ DeleteFriendship(req[r].row)
               /\ \E x \in FreshBan : ban' = [ban EXCEPT ![u] = x]
          ELSE UNCHANGED <<friendship, ban>>
       /\ UNCHANGED <<accounts, ask, chat, log, consent>>

\* DELETE /friends/ban/{username}
UnbanLoad(r) ==
    LET u == req[r].by
    IN /\ At(r, "unban", "ban")
       /\ req' = [req EXCEPT ![r] =
                    IF ban[u] = None THEN Idle
                    ELSE [req[r] EXCEPT !.rec = ban[u], !.pc = "commit"]]
       /\ UNCHANGED tables

UnbanCommit(r) ==
    LET u == req[r].by
    IN /\ At(r, "unban", "commit")
       /\ Finish(r)
       /\ ban' = [ban EXCEPT ![u] = IF @ = req[r].rec THEN None ELSE @]
       /\ UNCHANGED <<accounts, ask, friendship, chat, log, consent>>

\* POST /chats/{username}
OpenCheckBan(r) ==
    /\ At(r, "open", "ban")
    /\ req' = [req EXCEPT ![r] =
                 IF LookupRaises THEN Idle
                 ELSE [req[r] EXCEPT !.banned = BanFound(req[r].by),
                                     !.pc = "friendship"]]
    /\ UNCHANGED tables

OpenCheckFriends(r) ==
    /\ At(r, "open", "friendship")
    /\ Check(r, friendship # None \/ req[r].banned, "chat")

\* Error: a banned user is let through to the creation.
OpenFindChat_Unchecked(r) ==
    /\ At(r, "open", "chat")
    /\ Check(r, chat = {}, "commit")

OpenFindChat(r) ==
    /\ At(r, "open", "chat")
    /\ Check(r, chat = {} /\ ~req[r].banned, "commit")

OpenCommit(r) ==
    /\ At(r, "open", "commit")
    /\ Finish(r)
    /\ chat' = IF chat = {} /\ RowsAllowed THEN {witnessed[r]} ELSE chat
    /\ UNCHANGED <<accounts, ask, friendship, ban, log, consent>>

\* GET /chats looks the bans up for every chat whose other side still has an
\* account; an exception in it ends the answer for all of them.
ListFindChats(r, u) == chat # {} /\ Open(r, u, Opened("list", u, "ban"))

ListCheckBan(r) ==
    /\ At(r, "list", "ban")
    /\ IF LookupRaises THEN Advance(r, "error") ELSE Finish(r)
    /\ UNCHANGED tables

ListRaises(r) == At(r, "list", "error") /\ Finish(r) /\ UNCHANGED tables

\* POST /chats/{chat_id}/messages
SendFindChat(r, u) == chat # {} /\ Open(r, u, Opened("send", u, "ban"))

SendCheckBan(r) ==
    At(r, "send", "ban") /\ Check(r, ~BanFound(req[r].by), "friendship")

SendCheckFriends(r) ==
    At(r, "send", "friendship") /\ Check(r, friendship # None, "commit")

SendCommit(r) ==
    LET u == req[r].by
    IN /\ At(r, "send", "commit")
       /\ Finish(r)
       /\ log' = IF u \in accounts THEN log \cup {witnessed[r]} ELSE log
       /\ UNCHANGED <<accounts, ask, friendship, ban, chat, consent>>

\* DELETE /auth/account.  Everything that names the account cascades; the
\* chat and its messages stay.  The account of a room owner cannot be
\* deleted.
DeleteAccountCommit(r) ==
    /\ At(r, "delete_account", "commit")
    /\ Finish(r)
    /\ \/ /\ accounts' = accounts \ {req[r].by}
          /\ ask' = [i \in Asks |-> NoAsk]
          /\ friendship' = None
          /\ ban' = [u \in Users |-> None]
       \/ UNCHANGED <<accounts, ask, friendship, ban>>
    /\ UNCHANGED <<chat, log, consent>>

-----------------------------------------------------------------------------
(* The handlers, each with the steps it may be in. *)

SendRequest(r) ==
    \/ \E u \in Users : AskFindUser(r, u)
    \/ AskCheckBan(r) \/ AskCheckPending(r) \/ AskCommit(r)

AcceptRequest(r) ==
    (\E u \in Users, i \in Asks : AnswerLoad(r, "accept", u, i)) \/ AcceptCommit(r)

RejectRequest(r) ==
    (\E u \in Users, i \in Asks : AnswerLoad(r, "reject", u, i)) \/ RejectCommit(r)

RemoveFriend(r) ==
    \/ \E u \in Users : OpenWith(r, "unfriend", u, "friendship")
    \/ UnfriendLoad(r) \/ UnfriendCommit(r)

BanUser(r) ==
    \/ \E u \in Users : OpenWith(r, "ban", u, "ban")
    \/ BanCheckExisting(r) \/ BanLoadFriendship(r) \/ BanCommit(r)

UnbanUser(r) ==
    \/ \E u \in Users : OpenWith(r, "unban", u, "ban")
    \/ UnbanLoad(r) \/ UnbanCommit(r)

OpenPersonalChat(r) ==
    \/ \E u \in Users : OpenWith(r, "open", u, "ban")
    \/ OpenCheckBan(r) \/ OpenCheckFriends(r) \/ OpenFindChat(r)
    \/ OpenCommit(r)

ListPersonalChats(r) ==
    \/ \E u \in Users : ListFindChats(r, u)
    \/ ListCheckBan(r) \/ ListRaises(r)

SendChatMessage(r) ==
    \/ \E u \in Users : SendFindChat(r, u)
    \/ SendCheckBan(r) \/ SendCheckFriends(r) \/ SendCommit(r)

DeleteAccount(r) ==
    \/ \E u \in Users : Open(r, u, Opened("delete_account", u, "commit"))
    \/ DeleteAccountCommit(r)

Handle(r) ==
    \/ SendRequest(r) \/ AcceptRequest(r) \/ RejectRequest(r)
    \/ RemoveFriend(r) \/ BanUser(r) \/ UnbanUser(r)
    \/ OpenPersonalChat(r) \/ ListPersonalChats(r) \/ SendChatMessage(r)
    \/ DeleteAccount(r)

Next == \E r \in Requests : Handle(r) /\ Witness

Spec == Init /\ [][Next]_vars

-----------------------------------------------------------------------------
(* Properties. *)

TypeOK ==
    /\ accounts \subseteq Users
    /\ ask \in [Asks -> FriendRequest \cup {NoAsk}]
    /\ friendship \in Row
    /\ ban \in [Users -> Row]
    /\ chat \in SUBSET SUBSET Facts
    /\ log \in SUBSET SUBSET Facts
    /\ consent \subseteq Users
    /\ req \in [Requests -> InFlight \cup {Idle}]
    /\ witnessed \in [Requests -> SUBSET Facts]

\* A friendship has the consent of both: one of them has asked and the other
\* has accepted (accept_request serves the receiver of a request only).
MutualConsent == friendship # None => consent = Users

\* No message passes a ban that stood, in either direction, the whole time
\* its request ran, and none is stored for people who were not friends at
\* any moment of that time (send_chat_message, _is_banned, _are_friends).
MessageBetweenFriends == \A facts \in log : facts = Facts

\* A chat is created only for people who were friends, and not banned, while
\* it was being opened: the ban that lets a handler past the friendship check
\* keeps it from creating a chat (open_personal_chat).
ChatBetweenFriends == \A facts \in chat : facts = Facts

\* Friend requests, friendships and bans name two existing accounts, although
\* handlers insert them after checks made before an account was deleted.
NoOrphans ==
    accounts # Users => /\ friendship = None
                        /\ Bans = {}
                        /\ \A i \in Asks : ask[i] = NoAsk

\* Each step of each request, whatever the other requests do between its
\* steps, is one that PairPromise allows at that instant or changes nothing it
\* speaks of: nobody becomes a friend without a stored request of the other,
\* there is one chat, of people who agreed, what names a deleted account is
\* gone with it and never comes back, and no chat or message goes (all handlers
\* of friends.py that write, open_personal_chat, send_chat_message,
\* delete_account).
Promise == INSTANCE PairPromise WITH
    asked <- {u \in Users : \E i \in Asks : ask[i].sender = u},
    agreed <- consent, friends <- friendship # None, bans <- Bans,
    chat <- chat # {}, written <- log # {}
Implements == Promise!Spec
=============================================================================

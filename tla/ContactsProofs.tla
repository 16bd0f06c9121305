--------------------------- MODULE ContactsProofs ---------------------------
(***************************************************************************)
(* Theorems about Contacts for any number of requests, friend requests and *)
(* keys, and any set of endpoints in use.                                  *)
(***************************************************************************)
EXTENDS Contacts, TLAPS

LEMMA OtherIsOther ==
    ASSUME NEW u \in Users
    PROVE  Other(u) \in Users /\ Other(u) # u /\ Users = {u, Other(u)}
BY PairAssumption DEF Other

-----------------------------------------------------------------------------
(* The inductive invariant.                                                *)

\* What the handlers have established about a request q that has lived
\* through the facts w.  A friend request is in the table only after its
\* sender's handler has ended; the friend request being answered was sent by
\* the other person and vanishes only with an account.  A handler is past a
\* check only if it has seen what the check asks for.
Sound(q, w) ==
    /\ q \in InFlight \cup {Idle}
    /\ q.op = "ask" => q.ask \in Asks /\ ask[q.ask] = NoAsk
    /\ q.op \in {"accept", "reject"} =>
          /\ q.ask \in Asks
          /\ accounts = Users => ask[q.ask].sender = Other(q.by)
    /\ q.op = "send" /\ q.pc = "friendship" => "unbanned" \in w
    /\ q.op = "send" /\ q.pc = "commit" => Facts \subseteq w
    /\ q.op = "open" /\ q.pc = "friendship" => q.banned \/ "unbanned" \in w
    /\ q.op = "open" /\ q.pc = "chat" => q.banned \/ Facts \subseteq w
    /\ q.op = "open" /\ q.pc = "commit" => Facts \subseteq w

AllSound == \A r \in Requests : Sound(req[r], witnessed[r])

\* No two handlers are about to insert the same friend request.
KeysDiffer ==
    \A r, s \in Requests :
        r # s /\ req[r].op = "ask" /\ req[s].op = "ask" =>
            req[r].ask # req[s].ask

\* Whoever has sent a friend request has consented.
SendersConsent == \A i \in Asks : ask[i] # NoAsk => ask[i].sender \in consent

ContactsInv ==
    /\ TypeOK
    /\ AllSound
    /\ KeysDiffer
    /\ SendersConsent
    /\ MutualConsent
    /\ MessageBetweenFriends
    /\ ChatBetweenFriends
    /\ NoOrphans

-----------------------------------------------------------------------------
(* Steps that move a request and steps that end one.                       *)

\* A request at some step of an endpoint is in flight.
LEMMA AtInFlight ==
    ASSUME ContactsInv, NEW r \in Requests, NEW op \in AllOps, NEW pc,
           At(r, op, pc)
    PROVE  /\ req[r] \in InFlight /\ req[r].by \in Users
           /\ Sound(req[r], witnessed[r])
           /\ req[r].op = op /\ req[r].pc = pc
<1>1. req[r] # Idle /\ req[r].op = op /\ req[r].pc = pc
  BY DEF At, Idle, AllOps
<1>2. Sound(req[r], witnessed[r])
  BY DEF ContactsInv, AllSound
<1>3. req[r] \in InFlight
  BY <1>1, <1>2 DEF Sound
<1>. QED
  BY <1>1, <1>2, <1>3 DEF InFlight

\* Requests only ever witness more.
LEMMA WitnessGrows ==
    ASSUME ContactsInv, Witness
    PROVE  /\ witnessed' \in [Requests -> SUBSET Facts]
           /\ \A r \in Requests :
                 /\ req'[r].op \in {"open", "send"} =>
                       witnessed'[r] = witnessed[r] \cup Now'
<1>1. witnessed \in [Requests -> SUBSET Facts] /\ Now' \subseteq Facts
  BY DEF ContactsInv, TypeOK, Now
<1>. QED
  BY <1>1 DEF Witness

\* Soundness of a request outlasts whatever else it witnesses.
LEMMA SoundGrows ==
    ASSUME NEW q, NEW w, NEW x, Sound(q, w),
           q.op \in {"open", "send"} => w \subseteq x
    PROVE  Sound(q, x)
BY DEF Sound, Facts

\* A step that only moves request r keeps the invariant when the request it
\* leaves behind is sound.
LEMMA ReadStep ==
    ASSUME ContactsInv, UNCHANGED tables, Witness, NEW r \in Requests, NEW new,
           req' = [req EXCEPT ![r] = new],
           Sound(new, witnessed'[r]),
           new.op = "ask" =>
              \/ req[r].op = "ask" /\ req[r].ask = new.ask
              \/ \A s \in Requests : req[s].ask # new.ask
    PROVE  ContactsInv'
<1>1. \A s \in Requests : req'[s] = IF s = r THEN new ELSE req[s]
  BY DEF ContactsInv, TypeOK
<1>2. new \in InFlight \cup {Idle}
  BY DEF Sound
<1>3. TypeOK'
  BY <1>2, WitnessGrows DEF ContactsInv, TypeOK, tables
<1>4. \A s \in Requests : Sound(req'[s], witnessed'[s])
  <2>. SUFFICES ASSUME NEW s \in Requests, s # r
                PROVE  Sound(req[s], witnessed'[s])
    BY <1>1
  <2>1. req[s].op \in {"open", "send"} => witnessed[s] \subseteq witnessed'[s]
    BY <1>1, WitnessGrows
  <2>. QED
    BY <2>1, SoundGrows DEF ContactsInv, AllSound
<1>5. AllSound'
  BY <1>4 DEF AllSound, Sound, tables
<1>6. KeysDiffer'
  BY <1>1 DEF ContactsInv, KeysDiffer
<1>. QED
  BY <1>3, <1>5, <1>6
     DEF ContactsInv, SendersConsent, MutualConsent, MessageBetweenFriends,
         ChatBetweenFriends, NoOrphans, Bans, tables

\* A request that answers or raises.
LEMMA FinishStep ==
    ASSUME ContactsInv, UNCHANGED tables, Witness, NEW r \in Requests, Finish(r)
    PROVE  ContactsInv'
<1>1. Sound(Idle, witnessed'[r]) /\ Idle.op = "none"
  BY DEF Sound, Idle
<1>. QED
  BY <1>1, ReadStep DEF Finish

\* A handler's last step keeps the invariant when it keeps the tables in
\* order and the friend requests that others have in hand.
LEMMA CommitStep ==
    ASSUME ContactsInv, Witness, NEW r \in Requests, Finish(r),
           accounts' \subseteq Users,
           ask' \in [Asks -> FriendRequest \cup {NoAsk}],
           friendship' \in Row, ban' \in [Users -> Row],
           chat' \in SUBSET SUBSET Facts, log' \in SUBSET SUBSET Facts,
           consent' \subseteq Users,
           \A s \in Requests \ {r} :
              /\ req[s].op = "ask" => ask'[req[s].ask] = NoAsk
              /\ req[s].op \in {"accept", "reject"} /\ accounts' = Users =>
                    ask'[req[s].ask].sender = Other(req[s].by),
           SendersConsent', MutualConsent', MessageBetweenFriends',
           ChatBetweenFriends', NoOrphans'
    PROVE  ContactsInv'
<1>1. \A s \in Requests : req'[s] = IF s = r THEN Idle ELSE req[s]
  BY DEF Finish, ContactsInv, TypeOK
<1>2. TypeOK'
  BY WitnessGrows DEF Finish, ContactsInv, TypeOK
<1>3. ASSUME NEW s \in Requests PROVE Sound(req[s], witnessed[s])'
  <2>1. CASE s = r
    BY <1>1, <2>1 DEF Sound, Idle
  <2>2. CASE s # r
    <3>1. req'[s] = req[s]
      BY <1>1, <2>2
    <3>2. req[s].op \in {"open", "send"} => witnessed[s] \subseteq witnessed'[s]
      BY <3>1, WitnessGrows
    <3>3. Sound(req[s], witnessed'[s])
      BY <3>2, SoundGrows DEF ContactsInv, AllSound
    <3>. QED
      BY <2>2, <3>1, <3>3 DEF Sound
  <2>. QED
    BY <2>1, <2>2
<1>4. AllSound'
  BY <1>3 DEF AllSound
<1>5. KeysDiffer'
  BY <1>1 DEF ContactsInv, KeysDiffer, Idle
<1>. QED
  BY <1>2, <1>4, <1>5 DEF ContactsInv

-----------------------------------------------------------------------------
(* The queries of the handlers.                                            *)

\* Any query that sends a request on to step pc, keeping what the request has
\* in hand.
LEMMA AdvanceStep ==
    ASSUME ContactsInv, UNCHANGED tables, Witness, NEW r \in Requests,
           NEW op \in AllOps, NEW at, At(r, op, at), NEW new,
           req' = [req EXCEPT ![r] = new],
           new \in InFlight, new.op = op, new.by = req[r].by,
           new.ask = req[r].ask,
           Sound(new, witnessed'[r])
    PROVE  ContactsInv'
BY AtInFlight, ReadStep

\* A check, for endpoints whose later steps rest on nothing the check found.
LEMMA CheckStep ==
    ASSUME ContactsInv, Witness, NEW r \in Requests,
           NEW op \in {"ask", "ban"}, NEW at, At(r, op, at), NEW ok,
           NEW pc \in Steps, Check(r, ok, pc)
    PROVE  ContactsInv'
<1>1. CASE Finish(r)
  BY <1>1, FinishStep DEF Check
<1>2. CASE Advance(r, pc)
  <2>. DEFINE new == [req[r] EXCEPT !.pc = pc]
  <2>1. req[r] \in InFlight /\ req[r].op = op /\ Sound(req[r], witnessed[r])
    BY AtInFlight DEF AllOps
  <2>2. /\ new \in InFlight /\ new.op = op /\ new.by = req[r].by
        /\ new.ask = req[r].ask
    BY <2>1 DEF InFlight
  <2>3. req' = [req EXCEPT ![r] = new]
    BY <1>2 DEF Advance
  <2>. HIDE DEF new
  <2>4. Sound(new, witnessed'[r])
    BY <2>1, <2>2 DEF Sound
  <2>. QED
    BY <2>2, <2>3, <2>4, AdvanceStep DEF Check, AllOps
<1>. QED
  BY <1>1, <1>2 DEF Check

\* A new request that has nothing in hand and passed no check yet.
LEMMA OpenStep ==
    ASSUME ContactsInv, Witness, NEW r \in Requests, NEW u \in Users, NEW op,
           NEW pc \in Steps, Open(r, u, Opened(op, u, pc)),
           op \notin {"ask", "accept", "reject"},
           op \in {"send", "open"} => pc = "ban"
    PROVE  ContactsInv'
<1>. DEFINE new == Opened(op, u, pc)
<1>1. op \in AllOps /\ new.op = op /\ new.pc = pc
  BY OpsAssumption DEF Open, Opened, Idle
<1>2. new \in InFlight
  BY <1>1 DEF Opened, Idle, InFlight, Row
<1>. HIDE DEF new
<1>3. Sound(new, witnessed'[r])
  BY <1>1, <1>2 DEF Sound
<1>. QED
  BY <1>1, <1>3, ReadStep DEF Open, new

\* Loading the friendship: the same for the handlers that delete it.
LEMMA LoadStep ==
    ASSUME ContactsInv, Witness, NEW r \in Requests,
           NEW op \in {"unfriend", "ban"}, NEW at, At(r, op, at),
           LoadFriendship(r, "commit")
    PROVE  ContactsInv'
<1>. DEFINE new == [req[r] EXCEPT !.row = friendship, !.pc = "commit"]
<1>1. req[r] \in InFlight /\ req[r].op = op
  BY AtInFlight DEF AllOps
<1>2. friendship \in Row
  BY DEF ContactsInv, TypeOK
<1>3. /\ new \in InFlight /\ new.op = op /\ new.by = req[r].by
      /\ new.ask = req[r].ask
  BY <1>1, <1>2 DEF InFlight, Steps
<1>4. req' = [req EXCEPT ![r] = new]
  BY DEF LoadFriendship
<1>. HIDE DEF new
<1>5. Sound(new, witnessed'[r])
  BY <1>3 DEF Sound
<1>. QED
  BY <1>3, <1>4, <1>5, AdvanceStep DEF LoadFriendship, AllOps

\* What an unchanged table witnesses is what the query saw.
LEMMA NowSeen ==
    ASSUME ContactsInv, Witness, UNCHANGED tables, NEW r \in Requests,
           req'[r].op \in {"open", "send"}
    PROVE  /\ witnessed[r] \subseteq witnessed'[r]
           /\ Bans = {} => "unbanned" \in witnessed'[r]
           /\ friendship # None => "friends" \in witnessed'[r]
<1>1. witnessed'[r] = witnessed[r] \cup Now'
  BY WitnessGrows
<1>2. Now' = Now
  BY DEF Now, Bans, tables
<1>. QED
  BY <1>1, <1>2 DEF Now, Facts

\* The new friend request's key is nobody else's.
LEMMA AskFindUserStep ==
    ASSUME ContactsInv, Witness, NEW r \in Requests, NEW u \in Users,
           AskFindUser(r, u)
    PROVE  ContactsInv'
<1>1. PICK i \in FreshAsk :
         Open(r, u, [Opened("ask", u, "ban") EXCEPT !.ask = i])
  BY DEF AskFindUser
<1>. DEFINE new == [Opened("ask", u, "ban") EXCEPT !.ask = i]
<1>2. new \in InFlight /\ new.op = "ask" /\ new.ask = i
  BY <1>1 DEF Opened, Idle, InFlight, Row, Steps, AllOps, FreshAsk
<1>3. req' = [req EXCEPT ![r] = new] /\ UNCHANGED tables
  BY <1>1 DEF Open
<1>. HIDE DEF new
<1>4. Sound(new, witnessed'[r]) /\ \A s \in Requests : req[s].ask # new.ask
  BY <1>1, <1>2 DEF Sound, FreshAsk
<1>. QED
  BY <1>3, <1>4, ReadStep

\* The friend request in hand was sent by the other person.
LEMMA AnswerLoadStep ==
    ASSUME ContactsInv, Witness, NEW r \in Requests, NEW u \in Users,
           NEW op \in {"accept", "reject"}, NEW i \in Asks,
           AnswerLoad(r, op, u, i)
    PROVE  ContactsInv'
<1>. DEFINE new == [Opened(op, u, "commit") EXCEPT
                       !.ask = i, !.status = ask[i].status]
<1>1. ask[i] \in FriendRequest /\ ask[i].sender = Other(u)
  BY OtherIsOther, NoneAssumption
     DEF AnswerLoad, ContactsInv, TypeOK, NoAsk
<1>2. /\ new \in InFlight /\ new.op = op /\ new.ask = i /\ new.by = u
  BY <1>1 DEF Opened, Idle, InFlight, Row, Steps, AllOps, FriendRequest
<1>3. req' = [req EXCEPT ![r] = new] /\ UNCHANGED tables
  BY DEF Open, AnswerLoad
<1>. HIDE DEF new
<1>4. Sound(new, witnessed'[r])
  BY <1>1, <1>2 DEF Sound
<1>. QED
  BY <1>2, <1>3, <1>4, ReadStep

\* remove_friend, ban_user and unban_user before their last query.
LEMMA RelationReads ==
    ASSUME ContactsInv, Witness, NEW r \in Requests,
           \/ UnfriendLoad(r) \/ BanCheckExisting(r)
           \/ BanLoadFriendship(r) \/ UnbanLoad(r)
    PROVE  ContactsInv'
<1>1. CASE UnfriendLoad(r)
  BY <1>1, FinishStep, LoadStep DEF UnfriendLoad
<1>2. CASE BanCheckExisting(r)
  BY <1>2, CheckStep DEF BanCheckExisting, Steps
<1>3. CASE BanLoadFriendship(r)
  BY <1>3, LoadStep DEF BanLoadFriendship
<1>4. CASE UnbanLoad(r)
  <2>. DEFINE u == req[r].by
              new == [req[r] EXCEPT !.rec = ban[u], !.pc = "commit"]
  <2>1. CASE ban[u] = None
    BY <1>4, <2>1, FinishStep DEF UnbanLoad, Finish
  <2>2. CASE ban[u] # None
    <3>1. req[r] \in InFlight /\ req[r].op = "unban" /\ u \in Users
      BY <1>4, AtInFlight DEF UnbanLoad, AllOps
    <3>2. ban[u] \in Row
      BY <3>1 DEF ContactsInv, TypeOK
    <3>3. /\ new \in InFlight /\ new.op = "unban" /\ new.by = u
          /\ new.ask = req[r].ask
      BY <3>1, <3>2 DEF InFlight, Steps
    <3>4. req' = [req EXCEPT ![r] = new] /\ UNCHANGED tables
      BY <1>4, <2>2 DEF UnbanLoad
    <3>. HIDE DEF new
    <3>5. Sound(new, witnessed'[r])
      BY <3>3 DEF Sound
    <3>. QED
      BY <1>4, <3>3, <3>4, <3>5, AdvanceStep DEF UnbanLoad, AllOps
  <2>. QED
    BY <2>1, <2>2
<1>. QED
  BY <1>1, <1>2, <1>3, <1>4

\* send_chat_message: each check leaves its trace in what was witnessed.
LEMMA SendReads ==
    ASSUME ContactsInv, Witness, NEW r \in Requests,
           SendCheckBan(r) \/ SendCheckFriends(r)
    PROVE  ContactsInv'
<1>1. ASSUME NEW at, At(r, "send", at), NEW pc \in {"friendship", "commit"},
             UNCHANGED tables, Advance(r, pc),
             pc = "friendship" => Bans = {},
             pc = "commit" => at = "friendship" /\ friendship # None
      PROVE  ContactsInv'
  <2>. DEFINE new == [req[r] EXCEPT !.pc = pc]
  <2>1. /\ req[r] \in InFlight /\ req[r].op = "send" /\ req[r].pc = at
        /\ Sound(req[r], witnessed[r])
    BY <1>1, AtInFlight DEF AllOps
  <2>2. /\ new \in InFlight /\ new.op = "send" /\ new.by = req[r].by
        /\ new.ask = req[r].ask /\ new.pc = pc
    BY <2>1 DEF InFlight, Steps
  <2>3. req' = [req EXCEPT ![r] = new]
    BY <1>1 DEF Advance
  <2>. HIDE DEF new
  <2>4. req'[r].op \in {"open", "send"}
    BY <2>2, <2>3 DEF ContactsInv, TypeOK
  <2>5. Sound(new, witnessed'[r])
    BY <1>1, <2>1, <2>2, <2>4, NowSeen DEF Sound, Facts
  <2>. QED
    BY <1>1, <2>2, <2>3, <2>5, AdvanceStep DEF AllOps
<1>2. CASE SendCheckBan(r)
  BY <1>1, <1>2, FinishStep DEF SendCheckBan, Check, BanFound
<1>3. CASE SendCheckFriends(r)
  BY <1>1, <1>3, FinishStep DEF SendCheckFriends, Check
<1>. QED
  BY <1>2, <1>3

\* open_personal_chat: a handler that goes on has found a ban or has
\* witnessed what its checks ask for.
LEMMA OpenReads ==
    ASSUME ContactsInv, Witness, NEW r \in Requests,
           OpenCheckBan(r) \/ OpenCheckFriends(r) \/ OpenFindChat(r)
    PROVE  ContactsInv'
<1>1. ASSUME NEW at, At(r, "open", at), UNCHANGED tables, NEW new \in InFlight,
             req' = [req EXCEPT ![r] = new], new.op = "open",
             new.by = req[r].by, new.ask = req[r].ask,
             \/ new.pc = "friendship" /\ new.banned = BanFound(new.by)
             \/ /\ new.banned = req[r].banned
                /\ \/ /\ at = "friendship" /\ new.pc = "chat"
                      /\ friendship # None \/ req[r].banned
                   \/ at = "chat" /\ new.pc = "commit" /\ ~req[r].banned
      PROVE  ContactsInv'
  <2>1. req[r].pc = at /\ Sound(req[r], witnessed[r]) /\ req[r].op = "open"
    BY <1>1, AtInFlight DEF AllOps
  <2>2. req'[r].op \in {"open", "send"}
    BY <1>1 DEF ContactsInv, TypeOK
  <2>3. Sound(new, witnessed'[r])
    BY <1>1, <2>1, <2>2, NowSeen DEF Sound, Facts, BanFound
  <2>. QED
    BY <1>1, <2>3, AdvanceStep DEF AllOps
<1>2. ASSUME NEW at, At(r, "open", at) PROVE req[r] \in InFlight
  BY <1>2, AtInFlight DEF AllOps
<1>3. CASE OpenCheckBan(r)
  <2>. DEFINE new == [req[r] EXCEPT !.banned = BanFound(req[r].by),
                                    !.pc = "friendship"]
  <2>1. CASE LookupRaises
    BY <1>3, <2>1, FinishStep DEF OpenCheckBan, Finish
  <2>2. CASE ~LookupRaises
    <3>1. req[r] \in InFlight /\ req[r].op = "open"
      BY <1>2, <1>3 DEF OpenCheckBan, At
    <3>2. BanFound(req[r].by) \in BOOLEAN
      BY DEF BanFound
    <3>3. /\ new \in InFlight /\ new.op = "open" /\ new.by = req[r].by
          /\ new.ask = req[r].ask /\ new.pc = "friendship"
          /\ new.banned = BanFound(new.by)
      BY <3>1, <3>2 DEF InFlight, Steps
    <3>4. req' = [req EXCEPT ![r] = new] /\ UNCHANGED tables
      BY <1>3, <2>2 DEF OpenCheckBan
    <3>. HIDE DEF new
    <3>. QED
      BY <1>1, <1>3, <3>3, <3>4 DEF OpenCheckBan
  <2>. QED
    BY <2>1, <2>2
<1>4. CASE OpenCheckFriends(r)
  <2>. DEFINE new == [req[r] EXCEPT !.pc = "chat"]
  <2>1. CASE Finish(r)
    BY <1>4, <2>1, FinishStep DEF OpenCheckFriends, Check
  <2>2. CASE Advance(r, "chat") /\ (friendship # None \/ req[r].banned)
    <3>1. req[r] \in InFlight /\ req[r].op = "open"
      BY <1>2, <1>4 DEF OpenCheckFriends, At
    <3>2. /\ new \in InFlight /\ new.op = "open" /\ new.by = req[r].by
          /\ new.ask = req[r].ask /\ new.pc = "chat"
          /\ new.banned = req[r].banned
      BY <3>1 DEF InFlight, Steps
    <3>3. req' = [req EXCEPT ![r] = new] /\ UNCHANGED tables
      BY <1>4, <2>2 DEF OpenCheckFriends, Check, Advance
    <3>. HIDE DEF new
    <3>. QED
      BY <1>1, <1>4, <2>2, <3>2, <3>3 DEF OpenCheckFriends
  <2>. QED
    BY <1>4, <2>1, <2>2 DEF OpenCheckFriends, Check
<1>5. CASE OpenFindChat(r)
  <2>. DEFINE new == [req[r] EXCEPT !.pc = "commit"]
  <2>1. CASE Finish(r)
    BY <1>5, <2>1, FinishStep DEF OpenFindChat, Check
  <2>2. CASE Advance(r, "commit") /\ ~req[r].banned
    <3>1. req[r] \in InFlight /\ req[r].op = "open"
      BY <1>2, <1>5 DEF OpenFindChat, At
    <3>2. /\ new \in InFlight /\ new.op = "open" /\ new.by = req[r].by
          /\ new.ask = req[r].ask /\ new.pc = "commit"
          /\ new.banned = req[r].banned
      BY <3>1 DEF InFlight, Steps
    <3>3. req' = [req EXCEPT ![r] = new] /\ UNCHANGED tables
      BY <1>5, <2>2 DEF OpenFindChat, Check, Advance
    <3>. HIDE DEF new
    <3>. QED
      BY <1>1, <1>5, <2>2, <3>2, <3>3 DEF OpenFindChat
  <2>. QED
    BY <1>5, <2>1, <2>2 DEF OpenFindChat, Check
<1>. QED
  BY <1>3, <1>4, <1>5

\* list_personal_chats reads only.
LEMMA ListReads ==
    ASSUME ContactsInv, Witness, NEW r \in Requests,
           ListCheckBan(r) \/ ListRaises(r)
    PROVE  ContactsInv'
<1>1. CASE Finish(r)
  BY <1>1, FinishStep DEF ListCheckBan, ListRaises
<1>2. CASE At(r, "list", "ban") /\ Advance(r, "error") /\ UNCHANGED tables
  <2>. DEFINE new == [req[r] EXCEPT !.pc = "error"]
  <2>1. req[r] \in InFlight /\ req[r].op = "list"
    BY <1>2, AtInFlight DEF AllOps
  <2>2. /\ new \in InFlight /\ new.op = "list" /\ new.by = req[r].by
        /\ new.ask = req[r].ask
    BY <2>1 DEF InFlight, Steps
  <2>3. req' = [req EXCEPT ![r] = new]
    BY <1>2 DEF Advance
  <2>. HIDE DEF new
  <2>4. Sound(new, witnessed'[r])
    BY <2>2 DEF Sound
  <2>. QED
    BY <1>2, <2>2, <2>3, <2>4, AdvanceStep DEF AllOps
<1>. QED
  BY <1>1, <1>2 DEF ListCheckBan, ListRaises

-----------------------------------------------------------------------------
(* The commits of the handlers.                                            *)

\* Inserting a friend request touches none that others have in hand.
LEMMA AskCommitStep ==
    ASSUME ContactsInv, Witness, NEW r \in Requests, AskCommit(r)
    PROVE  ContactsInv'
<1>. DEFINE u == req[r].by
            i == req[r].ask
            new == [sender |-> u, status |-> "pending"]
<1>1. u \in Users /\ req[r].op = "ask" /\ i \in Asks /\ ask[i] = NoAsk
  BY AtInFlight DEF AskCommit, AllOps, Sound
<1>2. CASE ~RowsAllowed
  BY <1>2, FinishStep DEF AskCommit, tables
<1>3. CASE RowsAllowed
  <2>1. ask' = [ask EXCEPT ![i] = new] /\ consent' = consent \cup {u}
    BY <1>3 DEF AskCommit
  <2>2. new \in FriendRequest /\ new.sender = u /\ new # NoAsk
    BY <1>1, NoneAssumption DEF FriendRequest, Statuses, NoAsk
  <2>. HIDE DEF new
  <2>3. /\ ask' \in [Asks -> FriendRequest \cup {NoAsk}]
        /\ \A j \in Asks : ask'[j] = IF j = i THEN new ELSE ask[j]
    BY <1>1, <2>1, <2>2 DEF ContactsInv, TypeOK
  <2>4. ASSUME NEW s \in Requests \ {r}
        PROVE  /\ req[s].op = "ask" => ask'[req[s].ask] = NoAsk
               /\ req[s].op \in {"accept", "reject"} /\ accounts' = Users =>
                     ask'[req[s].ask].sender = Other(req[s].by)
    <3>1. Sound(req[s], witnessed[s])
      BY DEF ContactsInv, AllSound
    <3>2. CASE req[s].op = "ask"
      <4>1. req[s].ask # i
        BY <1>1, <3>2 DEF ContactsInv, KeysDiffer
      <4>. QED
        BY <2>3, <3>1, <3>2, <4>1 DEF Sound
    <3>3. CASE req[s].op \in {"accept", "reject"} /\ accounts' = Users
      <4>1. accounts = Users /\ req[s].by \in Users
        BY <3>1, <3>3 DEF AskCommit, Sound, InFlight, Idle
      <4>2. ask[req[s].ask].sender \in Users
        BY <3>1, <3>3, <4>1, OtherIsOther DEF Sound
      <4>3. req[s].ask # i
        BY <1>1, <4>2, NoneAssumption DEF NoAsk
      <4>. QED
        BY <2>3, <3>1, <3>3, <4>1, <4>3 DEF Sound
    <3>. QED
      BY <3>2, <3>3
  <2>5. SendersConsent'
    BY <2>1, <2>2, <2>3 DEF ContactsInv, SendersConsent
  <2>6. MutualConsent' /\ consent' \subseteq Users
    BY <1>1, <2>1 DEF ContactsInv, MutualConsent, AskCommit, TypeOK
  <2>7. NoOrphans'
    BY <1>3 DEF NoOrphans, RowsAllowed, AskCommit
  <2>. QED
    BY <2>3, <2>4, <2>5, <2>6, <2>7, CommitStep
       DEF AskCommit, ContactsInv, TypeOK, MessageBetweenFriends,
           ChatBetweenFriends
<1>. QED
  BY <1>2, <1>3

\* Answering a friend request changes its status and nothing else about it.
LEMMA SetStatusKeeps ==
    ASSUME ContactsInv, NEW r \in Requests, NEW op \in {"accept", "reject"},
           At(r, op, "commit"), accounts = Users, NEW s \in Statuses,
           SetStatus(r, s)
    PROVE  /\ ask' \in [Asks -> FriendRequest \cup {NoAsk}]
           /\ \A i \in Asks : /\ ask'[i] = NoAsk <=> ask[i] = NoAsk
                              /\ ask'[i].sender = ask[i].sender
           /\ Other(req[r].by) \in consent
<1>. DEFINE i == req[r].ask
            new == [ask[i] EXCEPT !.status = s]
<1>1. /\ req[r].by \in Users /\ i \in Asks
      /\ ask[i].sender = Other(req[r].by)
  BY AtInFlight DEF AllOps, Sound
<1>2. ask[i] \in FriendRequest
  BY <1>1, OtherIsOther, NoneAssumption DEF ContactsInv, TypeOK, NoAsk
<1>3. /\ new \in FriendRequest /\ new.sender = ask[i].sender
      /\ new # NoAsk /\ ask[i] # NoAsk
  BY <1>2, NoneAssumption DEF FriendRequest, NoAsk
<1>4. ask' = ask \/ ask' = [ask EXCEPT ![i] = new]
  BY DEF SetStatus
<1>. HIDE DEF new
<1>. QED
  BY <1>1, <1>3, <1>4 DEF ContactsInv, TypeOK, SendersConsent

LEMMA AnswerCommitStep ==
    ASSUME ContactsInv, Witness, NEW r \in Requests,
           AcceptCommit(r) \/ RejectCommit(r)
    PROVE  ContactsInv'
<1>1. ASSUME NEW op \in {"accept", "reject"}, At(r, op, "commit"), Finish(r),
             NEW s \in Statuses, SetStatus(r, s), accounts = Users,
             UNCHANGED <<accounts, ban, chat, log>>,
             consent' = consent \/ consent' = consent \cup {req[r].by},
             friendship' \in Row,
             friendship' = friendship \/ consent' = consent \cup {req[r].by}
      PROVE  ContactsInv'
  <2>1. /\ ask' \in [Asks -> FriendRequest \cup {NoAsk}]
        /\ \A i \in Asks : /\ ask'[i] = NoAsk <=> ask[i] = NoAsk
                           /\ ask'[i].sender = ask[i].sender
        /\ Other(req[r].by) \in consent
    BY <1>1, SetStatusKeeps
  <2>2. req[r].by \in Users
    BY <1>1, AtInFlight DEF AllOps
  <2>3. ASSUME NEW q \in Requests \ {r}
        PROVE  /\ req[q].op = "ask" => ask'[req[q].ask] = NoAsk
               /\ req[q].op \in {"accept", "reject"} /\ accounts' = Users =>
                     ask'[req[q].ask].sender = Other(req[q].by)
    BY <1>1, <2>1 DEF ContactsInv, AllSound, Sound
  <2>4. SendersConsent'
    BY <1>1, <2>1 DEF ContactsInv, SendersConsent
  <2>5. consent' \subseteq Users /\ MutualConsent'
    <3>1. Users = {req[r].by, Other(req[r].by)} /\ consent \subseteq Users
      BY <2>2, OtherIsOther DEF ContactsInv, TypeOK
    <3>2. CASE consent' = consent \cup {req[r].by}
      BY <2>1, <2>2, <3>1, <3>2 DEF MutualConsent
    <3>3. CASE consent' = consent /\ friendship' = friendship
      BY <3>1, <3>3 DEF ContactsInv, MutualConsent
    <3>. QED
      BY <1>1, <3>2, <3>3
  <2>6. NoOrphans'
    BY <1>1 DEF NoOrphans
  <2>. QED
    BY <1>1, <2>1, <2>3, <2>4, <2>5, <2>6, CommitStep
       DEF ContactsInv, TypeOK, MessageBetweenFriends, ChatBetweenFriends
<1>2. CASE AcceptCommit(r)
  <2>1. CASE friendship = None /\ RowsAllowed
    <3>1. PICK x \in FreshFriendship : friendship' = x
      BY <1>2, <2>1 DEF AcceptCommit
    <3>2. friendship' \in Row
      BY <3>1 DEF FreshFriendship, Row
    <3>. QED
      BY <1>1, <1>2, <2>1, <3>2 DEF AcceptCommit, RowsAllowed, Statuses
  <2>2. CASE ~(friendship = None /\ RowsAllowed)
    BY <1>2, <2>2, FinishStep DEF AcceptCommit, tables
  <2>. QED
    BY <2>1, <2>2
<1>3. CASE RejectCommit(r)
  <2>1. CASE accounts = Users
    <3>1. friendship' \in Row
      BY <1>3 DEF RejectCommit, ContactsInv, TypeOK
    <3>. QED
      BY <1>1, <1>3, <2>1, <3>1 DEF RejectCommit, Statuses
  <2>2. CASE accounts # Users
    BY <1>3, <2>2, FinishStep DEF RejectCommit, tables
  <2>. QED
    BY <2>1, <2>2
<1>. QED
  BY <1>2, <1>3

\* The commits that touch no friend request and no consent.
LEMMA RelationCommit ==
    ASSUME ContactsInv, Witness, NEW r \in Requests, Finish(r),
           UNCHANGED <<accounts, ask, consent>>,
           friendship' = friendship \/ friendship' = None,
           ban' \in [Users -> Row],
           accounts = Users \/ \A u \in Users : ban'[u] # None => ban[u] # None,
           chat' \in SUBSET SUBSET Facts, ChatBetweenFriends',
           log' \in SUBSET SUBSET Facts, MessageBetweenFriends'
    PROVE  ContactsInv'
<1>1. \A s \in Requests \ {r} :
         /\ req[s].op = "ask" => ask'[req[s].ask] = NoAsk
         /\ req[s].op \in {"accept", "reject"} /\ accounts' = Users =>
               ask'[req[s].ask].sender = Other(req[s].by)
  BY DEF ContactsInv, AllSound, Sound
<1>2. friendship' \in Row
  BY DEF ContactsInv, TypeOK, Row
<1>3. NoOrphans'
  BY DEF ContactsInv, NoOrphans, Bans
<1>4. SendersConsent' /\ MutualConsent'
  BY DEF ContactsInv, SendersConsent, MutualConsent
<1>. QED
  BY <1>1, <1>2, <1>3, <1>4, CommitStep DEF ContactsInv, TypeOK

LEMMA RelationCommits ==
    ASSUME ContactsInv, Witness, NEW r \in Requests,
           UnfriendCommit(r) \/ BanCommit(r) \/ UnbanCommit(r)
    PROVE  ContactsInv'
<1>. DEFINE u == req[r].by
<1>0. ContactsInv => ban \in [Users -> Row]
  BY DEF ContactsInv, TypeOK
<1>1. CASE UnfriendCommit(r)
  BY <1>0, <1>1, RelationCommit
     DEF UnfriendCommit, DeleteFriendship, ContactsInv, TypeOK,
         MessageBetweenFriends, ChatBetweenFriends
<1>2. CASE BanCommit(r)
  <2>1. CASE ban[u] = None /\ RowsAllowed
    <3>1. PICK x \in FreshBan : ban' = [ban EXCEPT ![u] = x]
      BY <1>2, <2>1 DEF BanCommit
    <3>2. ban' \in [Users -> Row]
      BY <1>0, <3>1 DEF FreshBan, Row
    <3>. QED
      BY <1>2, <2>1, <3>2, RelationCommit
         DEF BanCommit, DeleteFriendship, RowsAllowed, ContactsInv, TypeOK,
             MessageBetweenFriends, ChatBetweenFriends
  <2>2. CASE ~(ban[u] = None /\ RowsAllowed)
    BY <1>2, <2>2, FinishStep DEF BanCommit, tables
  <2>. QED
    BY <2>1, <2>2
<1>3. CASE UnbanCommit(r)
  <2>1. /\ ban' \in [Users -> Row]
        /\ \A v \in Users : ban'[v] # None => ban[v] # None
    BY <1>0, <1>3 DEF UnbanCommit, Row
  <2>. QED
    BY <1>3, <2>1, RelationCommit
       DEF UnbanCommit, ContactsInv, TypeOK, MessageBetweenFriends,
           ChatBetweenFriends
<1>. QED
  BY <1>1, <1>2, <1>3

\* The chat and the message record what their handler has witnessed.
LEMMA ChatCommits ==
    ASSUME ContactsInv, Witness, NEW r \in Requests,
           OpenCommit(r) \/ SendCommit(r)
    PROVE  ContactsInv'
<1>1. ban \in [Users -> Row] /\ witnessed[r] \in SUBSET Facts
  BY DEF ContactsInv, TypeOK
<1>2. witnessed[r] = Facts
  <2>1. Facts \subseteq witnessed[r]
    BY AtInFlight DEF OpenCommit, SendCommit, AllOps, Sound
  <2>. QED
    BY <1>1, <2>1
<1>3. CASE OpenCommit(r)
  <2>1. chat' \in SUBSET SUBSET Facts /\ ChatBetweenFriends'
    BY <1>1, <1>2, <1>3
       DEF OpenCommit, ContactsInv, TypeOK, ChatBetweenFriends
  <2>. QED
    BY <1>1, <1>3, <2>1, RelationCommit
       DEF OpenCommit, ContactsInv, TypeOK, MessageBetweenFriends
<1>4. CASE SendCommit(r)
  <2>1. log' \in SUBSET SUBSET Facts /\ MessageBetweenFriends'
    BY <1>1, <1>2, <1>4
       DEF SendCommit, ContactsInv, TypeOK, MessageBetweenFriends
  <2>. QED
    BY <1>1, <1>4, <2>1, RelationCommit
       DEF SendCommit, ContactsInv, TypeOK, ChatBetweenFriends
<1>. QED
  BY <1>3, <1>4

\* The end of an account takes with it every row that names it.
LEMMA DeleteAccountStep ==
    ASSUME ContactsInv, Witness, NEW r \in Requests, DeleteAccountCommit(r)
    PROVE  ContactsInv'
<1>1. CASE UNCHANGED tables
  BY <1>1, FinishStep DEF DeleteAccountCommit
<1>2. CASE /\ accounts' = accounts \ {req[r].by}
           /\ ask' = [i \in Asks |-> NoAsk]
           /\ friendship' = None
           /\ ban' = [u \in Users |-> None]
  <2>1. req[r].by \in Users
    BY AtInFlight DEF DeleteAccountCommit, AllOps
  <2>2. accounts' \subseteq Users /\ accounts' # Users
    BY <1>2, <2>1 DEF ContactsInv, TypeOK
  <2>3. \A s \in Requests \ {r} : req[s].op = "ask" => ask'[req[s].ask] = NoAsk
    BY <1>2 DEF ContactsInv, AllSound, Sound
  <2>4. SendersConsent' /\ MutualConsent' /\ NoOrphans'
    BY <1>2 DEF SendersConsent, MutualConsent, NoOrphans, Bans
  <2>. QED
    BY <1>2, <2>2, <2>3, <2>4, CommitStep
       DEF DeleteAccountCommit, ContactsInv, TypeOK, Row,
           MessageBetweenFriends, ChatBetweenFriends
<1>. QED
  BY <1>1, <1>2 DEF DeleteAccountCommit, tables

-----------------------------------------------------------------------------
(* The theorems.                                                           *)

LEMMA ContactsInvInit == Init => ContactsInv
<1>. SUFFICES ASSUME Init PROVE ContactsInv
  OBVIOUS
<1>1. TypeOK
  BY DEF Init, TypeOK, Row
<1>2. AllSound
  BY DEF Init, AllSound, Sound, Idle
<1>. QED
  BY <1>1, <1>2
     DEF Init, ContactsInv, KeysDiffer, SendersConsent, MutualConsent,
         MessageBetweenFriends, ChatBetweenFriends, NoOrphans, Idle

LEMMA ContactsInvStep == ContactsInv /\ [Next]_vars => ContactsInv'
<1>. SUFFICES ASSUME ContactsInv, [Next]_vars PROVE ContactsInv'
  OBVIOUS
<1>1. CASE UNCHANGED vars
  BY <1>1 DEF vars, tables, ContactsInv, TypeOK, AllSound, Sound, KeysDiffer,
              SendersConsent, MutualConsent, MessageBetweenFriends,
              ChatBetweenFriends, NoOrphans, Bans
<1>2. ASSUME NEW r \in Requests, Handle(r), Witness PROVE ContactsInv'
  <2>. USE <1>2
  <2>1. CASE SendRequest(r)
    BY <2>1, AskFindUserStep, CheckStep, AskCommitStep
       DEF SendRequest, AskCheckBan, AskCheckPending, Steps
  <2>2. CASE AcceptRequest(r) \/ RejectRequest(r)
    BY <2>2, AnswerLoadStep, AnswerCommitStep DEF AcceptRequest, RejectRequest
  <2>3. CASE RemoveFriend(r) \/ BanUser(r) \/ UnbanUser(r)
    BY <2>3, OpenStep, RelationReads, RelationCommits
       DEF RemoveFriend, BanUser, UnbanUser, OpenWith, Steps
  <2>4. CASE OpenPersonalChat(r)
    BY <2>4, OpenStep, OpenReads, ChatCommits
       DEF OpenPersonalChat, OpenWith, Steps
  <2>5. CASE ListPersonalChats(r)
    BY <2>5, OpenStep, ListReads DEF ListPersonalChats, ListFindChats, Steps
  <2>6. CASE SendChatMessage(r)
    BY <2>6, OpenStep, SendReads, ChatCommits
       DEF SendChatMessage, SendFindChat, Steps
  <2>7. CASE DeleteAccount(r)
    BY <2>7, OpenStep, DeleteAccountStep DEF DeleteAccount, Steps
  <2>. QED
    BY <2>1, <2>2, <2>3, <2>4, <2>5, <2>6, <2>7 DEF Handle
<1>. QED
  BY <1>1, <1>2 DEF Next

LEMMA ContactsInvHolds == Spec => []ContactsInv
BY ContactsInvInit, ContactsInvStep, PTL DEF Spec

\* Tables and requests keep their types, for any number of concurrent
\* requests and friend requests.
THEOREM ContactsTypeCorrect == Spec => []TypeOK
<1>1. ContactsInv => TypeOK
  BY DEF ContactsInv
<1>. QED
  BY <1>1, ContactsInvHolds, PTL

\* Whatever requests race, friends have both agreed: one asked, the other
\* accepted.
THEOREM FriendsAgreed == Spec => []MutualConsent
<1>1. ContactsInv => MutualConsent
  BY DEF ContactsInv
<1>. QED
  BY <1>1, ContactsInvHolds, PTL

\* Whatever requests race, no personal message passes a standing ban or is
\* stored for people who were not friends while it was being sent.
THEOREM MessagesBetweenFriends == Spec => []MessageBetweenFriends
<1>1. ContactsInv => MessageBetweenFriends
  BY DEF ContactsInv
<1>. QED
  BY <1>1, ContactsInvHolds, PTL

\* Whatever requests race, a chat comes into being only between people who
\* were friends and not banned while it was being opened.
THEOREM ChatsBetweenFriends == Spec => []ChatBetweenFriends
<1>1. ContactsInv => ChatBetweenFriends
  BY DEF ContactsInv
<1>. QED
  BY <1>1, ContactsInvHolds, PTL

\* Whatever requests race with the end of an account, none of its friend
\* requests, friendships and bans outlives it.
THEOREM ContactsNeverOrphaned == Spec => []NoOrphans
<1>1. ContactsInv => NoOrphans
  BY DEF ContactsInv
<1>. QED
  BY <1>1, ContactsInvHolds, PTL

-----------------------------------------------------------------------------
(* The pair keeps the promise of PairPromise, step by step.                *)

Askers == {u \in Users : \E i \in Asks : ask[i].sender = u}

Commits(r) ==
    \/ AskCommit(r) \/ AcceptCommit(r) \/ RejectCommit(r)
    \/ UnfriendCommit(r) \/ BanCommit(r) \/ UnbanCommit(r)
    \/ OpenCommit(r) \/ SendCommit(r) \/ DeleteAccountCommit(r)

\* Queries write nothing.
LEMMA OnlyCommitsWrite ==
    ASSUME NEW r \in Requests, Handle(r)
    PROVE  Commits(r) \/ UNCHANGED tables
<1>1. CASE SendRequest(r)
  BY <1>1 DEF SendRequest, AskFindUser, AskCheckBan, AskCheckPending, Open,
              Check, Commits
<1>2. CASE RemoveFriend(r) \/ BanUser(r) \/ UnbanUser(r)
  BY <1>2 DEF RemoveFriend, UnfriendLoad, BanUser, BanCheckExisting,
              BanLoadFriendship, UnbanUser, UnbanLoad, LoadFriendship,
              OpenWith, Open, Check, Commits
<1>3. CASE OpenPersonalChat(r) \/ ListPersonalChats(r) \/ SendChatMessage(r)
  BY <1>3 DEF OpenPersonalChat, OpenCheckBan, OpenCheckFriends, OpenFindChat,
              ListPersonalChats, ListFindChats, ListCheckBan, ListRaises,
              SendChatMessage, SendFindChat, SendCheckBan, SendCheckFriends,
              OpenWith, Open, Check, Commits
<1>4. CASE AcceptRequest(r) \/ RejectRequest(r)
  <2>1. ASSUME NEW op, NEW u, NEW i, AnswerLoad(r, op, u, i)
        PROVE  UNCHANGED tables
    BY <2>1 DEF AnswerLoad, Open
  <2>. QED
    BY <1>4, <2>1 DEF AcceptRequest, RejectRequest, Commits
<1>5. CASE DeleteAccount(r)
  BY <1>5 DEF DeleteAccount, Open, Commits
<1>. QED
  BY <1>1, <1>2, <1>3, <1>4, <1>5 DEF Handle

\* A message is on its way only if its chat was found.
LEMMA SendsFindChat ==
    ASSUME TypeOK, NEW r \in Requests, Handle(r), NEW s \in Requests,
           req'[s].op = "send"
    PROVE  req[s].op = "send" \/ chat # {}
<1>. SUFFICES ASSUME chat = {} PROVE req'[s].op = req[s].op
  OBVIOUS
<1>0. req[r] \in InFlight \cup {Idle} /\ req \in [Requests -> InFlight \cup {Idle}]
  BY DEF TypeOK
<1>1. CASE Finish(r)
  BY <1>0, <1>1 DEF Finish, Idle
<1>2. ASSUME NEW pc, Advance(r, pc) PROVE req'[s].op = req[s].op
  BY <1>0, <1>2 DEF Advance, InFlight, Idle
<1>3. ASSUME NEW ok, NEW pc, Check(r, ok, pc) PROVE req'[s].op = req[s].op
  BY <1>1, <1>2, <1>3 DEF Check
<1>4. ASSUME NEW pc, LoadFriendship(r, pc) PROVE req'[s].op = req[s].op
  BY <1>0, <1>4 DEF LoadFriendship, InFlight, Idle
<1>5. ASSUME NEW op, NEW u, NEW pc, op # "send", Open(r, u, Opened(op, u, pc))
      PROVE  req'[s].op = req[s].op
  BY <1>0, <1>5 DEF Open, Opened, Idle
<1>6. CASE SendRequest(r)
  <2>1. ASSUME NEW u, AskFindUser(r, u) PROVE req'[s].op = req[s].op
    BY <1>0, <2>1 DEF AskFindUser, Open, Opened, Idle
  <2>. QED
    BY <1>1, <1>3, <1>6, <2>1 DEF SendRequest, AskCheckBan, AskCheckPending, AskCommit
<1>7. CASE AcceptRequest(r) \/ RejectRequest(r)
  <2>1. ASSUME NEW op \in {"accept", "reject"}, NEW u, NEW i, AnswerLoad(r, op, u, i)
        PROVE  req'[s].op = req[s].op
    BY <1>0, <2>1 DEF AnswerLoad, Open, Opened, Idle
  <2>. QED
    BY <1>1, <1>7, <2>1 DEF AcceptRequest, RejectRequest, AcceptCommit, RejectCommit
<1>8. CASE RemoveFriend(r) \/ BanUser(r) \/ UnbanUser(r)
  <2>1. CASE UnbanLoad(r)
    BY <1>0, <2>1 DEF UnbanLoad, InFlight, Idle
  <2>. QED
    BY <1>1, <1>3, <1>4, <1>5, <1>8, <2>1
       DEF RemoveFriend, UnfriendLoad, UnfriendCommit, BanUser, BanCheckExisting,
           BanLoadFriendship, BanCommit, UnbanUser, UnbanCommit, OpenWith
<1>9. CASE OpenPersonalChat(r)
  <2>1. CASE OpenCheckBan(r)
    BY <1>0, <2>1 DEF OpenCheckBan, InFlight, Idle
  <2>. QED
    BY <1>1, <1>3, <1>5, <1>9, <2>1
       DEF OpenPersonalChat, OpenCheckFriends, OpenFindChat, OpenCommit, OpenWith
<1>10. CASE ListPersonalChats(r) \/ SendChatMessage(r) \/ DeleteAccount(r)
  BY <1>1, <1>2, <1>3, <1>5, <1>10
     DEF ListPersonalChats, ListFindChats, ListCheckBan, ListRaises,
         SendChatMessage, SendFindChat, SendCheckBan, SendCheckFriends, SendCommit,
         DeleteAccount, DeleteAccountCommit
<1>. QED
  BY <1>6, <1>7, <1>8, <1>9, <1>10 DEF Handle

-----------------------------------------------------------------------------
(* What the two rely on, besides ContactsInv.                              *)

\* Whoever witnesses a friendship, both have agreed to it; whoever sends has
\* found the chat.
WitnessesAgreed == \A r \in Requests : "friends" \in witnessed[r] => consent = Users
SendersHaveChat == \A r \in Requests : req[r].op = "send" => chat # {}

PairInv == ContactsInv /\ WitnessesAgreed /\ SendersHaveChat

\* Agreement and chats stay.
LEMMA NothingTakenBack ==
    ASSUME ContactsInv, NEW r \in Requests, Handle(r)
    PROVE  consent \subseteq consent' /\ (chat # {} => chat' # {})
<1>1. CASE UNCHANGED tables
  BY <1>1 DEF tables
<1>2. CASE Commits(r)
  BY <1>2 DEF Commits, AskCommit, AcceptCommit, RejectCommit, UnfriendCommit,
              BanCommit, UnbanCommit, OpenCommit, SendCommit, DeleteAccountCommit
<1>. QED
  BY <1>1, <1>2, OnlyCommitsWrite

LEMMA PairInvStep == PairInv /\ [Next]_vars => PairInv'
<1>. SUFFICES ASSUME PairInv, [Next]_vars PROVE PairInv'
  OBVIOUS
<1>1. ContactsInv'
  BY ContactsInvStep DEF PairInv
<1>2. CASE UNCHANGED vars
  BY <1>1, <1>2 DEF vars, tables, PairInv, WitnessesAgreed, SendersHaveChat
<1>3. ASSUME NEW r \in Requests, Handle(r), Witness PROVE PairInv'
  <2>1. consent \subseteq consent' /\ (chat # {} => chat' # {})
    BY <1>3, NothingTakenBack DEF PairInv
  <2>2. consent' \subseteq Users
    BY <1>1 DEF ContactsInv, TypeOK
  <2>3. ASSUME NEW s \in Requests, "friends" \in witnessed'[s]
        PROVE  consent' = Users
    <3>1. witnessed'[s] \subseteq witnessed[s] \cup Now'
      BY <1>3 DEF Witness
    <3>2. CASE "friends" \in witnessed[s]
      BY <2>1, <2>2, <3>2 DEF PairInv, WitnessesAgreed
    <3>3. CASE "friends" \in Now'
      BY <1>1, <3>3 DEF Now, ContactsInv, MutualConsent
    <3>. QED
      BY <2>3, <3>1, <3>2, <3>3
  <2>4. SendersHaveChat'
    BY <1>3, <2>1, SendsFindChat DEF PairInv, SendersHaveChat, ContactsInv
  <2>. QED
    BY <1>1, <2>3, <2>4 DEF PairInv, WitnessesAgreed
<1>. QED
  BY <1>2, <1>3 DEF Next

LEMMA PairInvHolds == Spec => []PairInv
<1>1. Init => PairInv
  BY ContactsInvInit DEF Init, PairInv, WitnessesAgreed, SendersHaveChat, Idle
<1>. QED
  BY <1>1, PairInvStep, PTL DEF Spec

-----------------------------------------------------------------------------
(* The commits, as steps of PairPromise.                                   *)

Unseen == UNCHANGED <<accounts, Askers, consent, friendship, Bans, chat, log>>

LEMMA UnseenStutters == Unseen => UNCHANGED Promise!pairVars
BY DEF Unseen, Promise!pairVars, Askers

\* A friend request is stored.
LEMMA AskCommitSeen ==
    ASSUME PairInv, NEW r \in Requests, AskCommit(r)
    PROVE  Unseen \/ \E u \in Users : Promise!Ask(u)
<1>1. PICK u \in Users : u = req[r].by
  BY AtInFlight DEF PairInv, AskCommit, AllOps
<1>2. PICK i \in Asks : i = req[r].ask /\ ask[i] = NoAsk
  BY AtInFlight DEF PairInv, AskCommit, AllOps, Sound
<1>3. CASE ~RowsAllowed
  BY <1>3 DEF AskCommit, Unseen, Askers, Bans
<1>4. CASE RowsAllowed
  <2>1. /\ ask' = [ask EXCEPT ![i] = [sender |-> u, status |-> "pending"]]
        /\ consent' = consent \cup {u}
        /\ UNCHANGED <<accounts, friendship, ban, chat, log>>
    BY <1>1, <1>2, <1>4 DEF AskCommit
  <2>2. \A j \in Asks : ask'[j].sender = IF j = i THEN u ELSE ask[j].sender
    BY <2>1 DEF PairInv, ContactsInv, TypeOK
  <2>3. ask[i].sender \notin Users
    BY <1>2, NoneAssumption DEF NoAsk
  <2>4. Askers' = Askers \cup {u}
    BY <2>2, <2>3 DEF Askers
  <2>5. Promise!Ask(u)
    BY <1>4, <2>1, <2>4 DEF Promise!Ask, RowsAllowed, Askers, Bans
  <2>. QED
    BY <2>5
<1>. QED
  BY <1>3, <1>4

\* A friendship begins when the receiver of a stored request accepts it.
LEMMA AnswerCommitSeen ==
    ASSUME PairInv, NEW r \in Requests, AcceptCommit(r) \/ RejectCommit(r)
    PROVE  Unseen \/ \E u \in Users : Promise!Befriend(u)
<1>1. PICK u \in Users : u = req[r].by
  BY AtInFlight DEF PairInv, AcceptCommit, RejectCommit, AllOps
<1>2. ASSUME NEW op \in {"accept", "reject"}, At(r, op, "commit"), accounts = Users,
             NEW s \in Statuses, SetStatus(r, s)
      PROVE  Askers' = Askers /\ Other(u) \in Askers
  <2>1. \A i \in Asks : ask'[i].sender = ask[i].sender
    BY <1>2, SetStatusKeeps DEF PairInv
  <2>2. req[r].ask \in Asks /\ ask[req[r].ask].sender = Other(u)
    BY <1>1, <1>2, AtInFlight DEF PairInv, AllOps, Sound
  <2>. QED
    BY <2>1, <2>2, OtherIsOther DEF Askers
<1>3. CASE AcceptCommit(r) /\ friendship = None /\ RowsAllowed
  <2>1. PICK x \in Rows : friendship' = x
    BY <1>3 DEF AcceptCommit, FreshFriendship
  <2>2. friendship' # None
    BY <2>1, NoneAssumption
  <2>3. Askers' = Askers /\ Other(u) \in Askers
    BY <1>2, <1>3 DEF AcceptCommit, RowsAllowed, Statuses
  <2>4. Promise!Befriend(u)
    BY <1>1, <1>3, <2>2, <2>3, OtherIsOther
       DEF Promise!Befriend, AcceptCommit, RowsAllowed, Askers, Bans
  <2>. QED
    BY <2>4
<1>4. CASE AcceptCommit(r) /\ ~ (friendship = None /\ RowsAllowed)
  BY <1>4 DEF AcceptCommit, Unseen, Askers, Bans
<1>5. CASE RejectCommit(r)
  <2>1. Askers' = Askers
    BY <1>2, <1>5 DEF RejectCommit, Statuses, Askers
  <2>. QED
    BY <1>5, <2>1 DEF RejectCommit, Unseen, Bans
<1>. QED
  BY <1>3, <1>4, <1>5

\* The end of a friendship, and bans.
LEMMA RelationCommitSeen ==
    ASSUME PairInv, NEW r \in Requests,
           UnfriendCommit(r) \/ BanCommit(r) \/ UnbanCommit(r)
    PROVE  \/ Unseen \/ Promise!Part
           \/ \E u \in Users : Promise!Ban(u) \/ Promise!Unban(u)
<1>1. PICK u \in Users : u = req[r].by
  BY AtInFlight DEF PairInv, UnfriendCommit, BanCommit, UnbanCommit, AllOps
<1>2. ban \in [Users -> Row]
  BY DEF PairInv, ContactsInv, TypeOK
<1>3. CASE UnfriendCommit(r)
  <2>1. CASE friendship # None /\ friendship = req[r].row
    BY <1>3, <2>1 DEF UnfriendCommit, DeleteFriendship, Promise!Part, Askers, Bans
  <2>2. CASE ~ (friendship # None /\ friendship = req[r].row)
    BY <1>3, <2>2 DEF UnfriendCommit, DeleteFriendship, Unseen, Askers, Bans
  <2>. QED
    BY <2>1, <2>2
<1>4. CASE BanCommit(r)
  <2>1. CASE ban[u] = None /\ RowsAllowed
    <3>1. PICK x \in Rows : ban' = [ban EXCEPT ![u] = x]
      BY <1>1, <1>4, <2>1 DEF BanCommit, FreshBan
    <3>2. Bans' = Bans \cup {u} /\ u \notin Bans
      BY <1>2, <2>1, <3>1, NoneAssumption DEF Bans
    <3>3. friendship' = friendship \/ friendship' = None
      BY <1>1, <1>4, <2>1 DEF BanCommit, DeleteFriendship
    <3>4. Promise!Ban(u)
      BY <1>1, <1>4, <2>1, <3>2, <3>3 DEF Promise!Ban, BanCommit, RowsAllowed, Askers
    <3>. QED
      BY <3>4
  <2>2. CASE ~ (ban[u] = None /\ RowsAllowed)
    BY <1>1, <1>4, <2>2 DEF BanCommit, Unseen, Askers, Bans
  <2>. QED
    BY <2>1, <2>2
<1>5. CASE UnbanCommit(r)
  <2>1. CASE ban[u] # None /\ ban[u] = req[r].rec
    <3>1. Bans' = Bans \ {u} /\ u \in Bans
      BY <1>1, <1>2, <1>5, <2>1 DEF UnbanCommit, Bans
    <3>2. Promise!Unban(u)
      BY <1>5, <3>1 DEF Promise!Unban, UnbanCommit, Askers
    <3>. QED
      BY <3>2
  <2>2. CASE ~ (ban[u] # None /\ ban[u] = req[r].rec)
    <3>1. ban' = ban
      BY <1>1, <1>2, <1>5, <2>2 DEF UnbanCommit
    <3>. QED
      BY <1>5, <3>1 DEF UnbanCommit, Unseen, Askers, Bans
  <2>. QED
    BY <2>1, <2>2
<1>. QED
  BY <1>3, <1>4, <1>5

\* A chat is created by people who have agreed, and written in afterwards.
LEMMA ChatCommitSeen ==
    ASSUME PairInv, NEW r \in Requests, OpenCommit(r) \/ SendCommit(r)
    PROVE  \/ Unseen \/ Promise!OpenChat
           \/ \E u \in Users : Promise!Write(u)
<1>1. CASE OpenCommit(r)
  <2>1. consent = Users
    <3>1. Facts \subseteq witnessed[r]
      BY <1>1, AtInFlight DEF PairInv, OpenCommit, AllOps, Sound
    <3>. QED
      BY <3>1 DEF PairInv, WitnessesAgreed, Facts
  <2>2. CASE chat = {} /\ RowsAllowed
    <3>1. chat' # {}
      BY <1>1, <2>2 DEF OpenCommit
    <3>. QED
      BY <1>1, <2>1, <2>2, <3>1 DEF OpenCommit, RowsAllowed, Promise!OpenChat, Askers, Bans
  <2>3. CASE ~ (chat = {} /\ RowsAllowed)
    BY <1>1, <2>3 DEF OpenCommit, Unseen, Askers, Bans
  <2>. QED
    BY <2>2, <2>3
<1>2. CASE SendCommit(r)
  <2>1. PICK u \in Users : u = req[r].by
    BY <1>2, AtInFlight DEF PairInv, SendCommit, AllOps
  <2>2. chat # {}
    BY <1>2 DEF PairInv, SendersHaveChat, SendCommit, At
  <2>3. CASE u \in accounts
    <3>1. log' # {}
      BY <1>2, <2>1, <2>3 DEF SendCommit
    <3>2. Promise!Write(u)
      BY <1>2, <2>2, <2>3, <3>1 DEF SendCommit, Promise!Write, Askers, Bans
    <3>. QED
      BY <3>2
  <2>4. CASE u \notin accounts
    BY <1>2, <2>1, <2>4 DEF SendCommit, Unseen, Askers, Bans
  <2>. QED
    BY <2>3, <2>4
<1>. QED
  BY <1>1, <1>2

\* An account goes, or has gone before.
LEMMA DeleteAccountSeen ==
    ASSUME PairInv, NEW r \in Requests, DeleteAccountCommit(r)
    PROVE  Unseen \/ \E u \in Users : Promise!CloseAccount(u)
<1>1. PICK u \in Users : u = req[r].by
  BY AtInFlight DEF PairInv, DeleteAccountCommit, AllOps
<1>2. CASE UNCHANGED <<accounts, ask, friendship, ban>>
  BY <1>2 DEF DeleteAccountCommit, Unseen, Askers, Bans
<1>3. CASE /\ accounts' = accounts \ {u}
           /\ ask' = [i \in Asks |-> NoAsk]
           /\ friendship' = None
           /\ ban' = [v \in Users |-> None]
  <2>1. Askers' = {} /\ Bans' = {}
    BY <1>3, NoneAssumption DEF Askers, Bans, NoAsk
  <2>2. CASE u \in accounts
    <3>1. Promise!CloseAccount(u)
      BY <1>3, <2>1, <2>2 DEF DeleteAccountCommit, Promise!CloseAccount, Askers
    <3>. QED
      BY <3>1
  <2>3. CASE u \notin accounts
    <3>1. accounts' = accounts /\ accounts # Users
      BY <1>3, <2>3 
    <3>2. Askers = {} /\ friendship = None /\ Bans = {}
      BY <3>1, NoneAssumption DEF PairInv, ContactsInv, NoOrphans, Askers, NoAsk
    <3>. QED
      BY <1>3, <2>1, <3>1, <3>2 DEF DeleteAccountCommit, Unseen
  <2>. QED
    BY <2>2, <2>3
<1>. QED
  BY <1>1, <1>2, <1>3 DEF DeleteAccountCommit

LEMMA StepSeen == PairInv /\ [Next]_vars => [Promise!Next]_(Promise!pairVars)
<1>. SUFFICES ASSUME PairInv, [Next]_vars
              PROVE  Unseen \/ Promise!Next
  BY UnseenStutters
<1>1. CASE UNCHANGED vars
  BY <1>1 DEF vars, tables, Unseen, Askers, Bans
<1>2. ASSUME NEW r \in Requests, Handle(r) PROVE Unseen \/ Promise!Next
  <2>1. CASE UNCHANGED tables
    BY <2>1 DEF tables, Unseen, Askers, Bans
  <2>2. CASE Commits(r)
    BY <2>2, AskCommitSeen, AnswerCommitSeen, RelationCommitSeen, ChatCommitSeen,
       DeleteAccountSeen DEF Commits, Promise!Next
  <2>. QED
    BY <1>2, <2>1, <2>2, OnlyCommitsWrite
<1>. QED
  BY <1>1, <1>2 DEF Next

\* Whatever requests race, what two people see of each other is as if each
\* request were carried out at one instant, within PairPromise: every commit of
\* friends.py, messages.py and auth.py is one of its steps, for any number of
\* concurrent requests.
THEOREM PairKeepsPromise == Spec => Implements
<1>1. Init => Promise!Init
  BY NoneAssumption DEF Init, Promise!Init, NoAsk, Bans
<1>. QED
  BY <1>1, PairInvHolds, StepSeen, PTL DEF Spec, Promise!Spec, Implements
=============================================================================

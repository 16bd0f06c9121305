----------------------------- MODULE CacheAside -----------------------------
(***************************************************************************)
(* The cache in front of the database (core/cache.py): reads that fill it   *)
(* and writes that delete from it after their commit, of one key: a room,   *)
(* its members, the catalog, a list of friends or a profile.  No request    *)
(* uses two keys together, except to delete them.  What the database holds  *)
(* is a version per fact; readers look the facts up query by query.         *)
(***************************************************************************)
EXTENDS Naturals, Sequences, FiniteSets

CONSTANTS
    Readers, Writers,  \* requests at the same time
    Keys,              \* the keys an instance may be about
    Ops,               \* the endpoints that write in an instance
    Private,           \* the visibility of the room
    Life,              \* time to live of an entry
    MaxWrites,         \* bound on commits
    None               \* a miss

ASSUME KeysAssumption == Keys \subseteq {"room", "members", "catalog", "friends", "user"}
ASSUME BoundsAssumption == Life \in Nat \ {0} /\ MaxWrites \in Nat /\ Private \in BOOLEAN

VARIABLES
    key,      \* the key of this behaviour
    version,  \* version[f]: the fact f in the database
    exists,   \* the room exists
    member,   \* the reader of the room is a member
    cache,    \* what Redis holds of the key
    reader,   \* reader[r]: a request that reads
    writer,   \* writer[w]: a request that writes
    commits   \* how many so far

dbVars == <<key, version, exists, member>>
vars == <<dbVars, cache, reader, writer, commits>>

Facts == {"rooms", "info", "people", "admins", "friendship", "account"}

\* The queries whose answers an entry is made of, in their order.
Queries ==
    [room |-> <<{"info"}, {"people", "account"}>>,
     members |-> <<{"people", "admins", "account"}>>,
     catalog |-> <<{"rooms", "info"}, {"people", "account"}>>,
     friends |-> <<{"friendship"}, {"account"}>>,
     user |-> <<{"account"}>>]

Write(changes, deletes) == [changes |-> changes, deletes |-> deletes]

\* Error: a change of role is not one of the list of members.
Writes_RolesForgotten ==
    [create |-> Write({"rooms"}, {"catalog"}),
     update |-> Write({"info"}, {"room", "catalog"}),
     delete |-> Write({"rooms", "info", "people", "admins"}, {"room", "members", "catalog"}),
     joinleave |-> Write({"people"}, {"room", "members"}),
     roles |-> Write({"admins"}, {"room"}),
     contacts |-> Write({"friendship"}, {"friends"}),
     account |-> Write({"account"}, {"user"})]

\* What an endpoint changes, and what it deletes from the cache.  joinleave
\* is join, leave, ban and the acceptance of an invitation; roles is grant and
\* revoke; contacts is accept, remove and ban of a friend.  The list of friends
\* that account deletes is its own, which nobody can ask for any more; what the
\* deletion takes from the lists of others is part of the fact "account".
Writes ==
    [create |-> Write({"rooms"}, {"catalog"}),
     update |-> Write({"info"}, {"room", "catalog"}),
     delete |-> Write({"rooms", "info", "people", "admins"}, {"room", "members", "catalog"}),
     joinleave |-> Write({"people"}, {"room", "members"}),
     roles |-> Write({"admins"}, {"members"}),
     contacts |-> Write({"friendship"}, {"friends"}),
     account |-> Write({"account"}, {"user"})]

ASSUME OpsAssumption == Ops \subseteq DOMAIN Writes

OfRoom == {"update", "delete", "joinleave", "roles"}

\* What an entry of k shows.
Shown(k) == UNION {Queries[k][i] : i \in DOMAIN Queries[k]}
NoFacts(k) == [f \in Shown(k) |-> 0]

Away == [at |-> "away", facts |-> NoFacts(key), query |-> 1,
         excused |-> FALSE, seen |-> FALSE, hit |-> FALSE]
Resting == [at |-> "resting", op |-> None]

Init ==
    /\ key \in Keys /\ version = NoFacts(key)
    /\ exists = TRUE /\ member \in BOOLEAN
    /\ cache = None
    /\ reader = [r \in Readers |-> Away]
    /\ writer = [w \in Writers |-> Resting] /\ commits = 0

-----------------------------------------------------------------------------
(* core/cache.py; every failure of Redis is swallowed *)

\* Whoever has looked the key up, and what it holds, may be of before this.
Midway(r) == reader[r].at = "set" \/ reader[r].query = 2

CacheDelete(K) ==
    IF key \notin K THEN UNCHANGED <<cache, reader>> ELSE
    /\ reader' = [r \in Readers |->
          IF Midway(r) THEN [reader[r] EXCEPT !.excused = TRUE] ELSE reader[r]]
    /\ \/ cache' = None
       \/ cache # None /\ cache' = [cache EXCEPT !.excused = TRUE]

Entry(r) == [facts |-> reader[r].facts, left |-> Life, excused |-> reader[r].excused]

\* A unit of time: an entry with no life left expires.
Tick ==
    /\ cache # None
    /\ cache' = IF cache.left = 1 THEN None ELSE [cache EXCEPT !.left = @ - 1]
    /\ UNCHANGED <<dbVars, reader, writer, commits>>

\* allkeys-lru: an entry may go at any time.
Evict ==
    /\ cache # None
    /\ cache' = None
    /\ UNCHANGED <<dbVars, reader, writer, commits>>

-----------------------------------------------------------------------------
(* The endpoints that read *)

Become(r, record) == reader' = [reader EXCEPT ![r] = record]
Goto(r, phase) == Become(r, [reader[r] EXCEPT !.at = phase])

\* list_members looks the membership up before the cache.
Begin(r) ==
    /\ reader[r].at = "away"
    /\ Become(r, [Away EXCEPT !.at = IF key = "members" THEN "check" ELSE "get",
                              !.seen = member])
    /\ UNCHANGED <<dbVars, cache, writer, commits>>

\* Error: what is cached is for everybody.
CacheGet_Unchecked(r) ==
    /\ reader[r].at = "get"
    /\ \/ cache # None /\ Become(r, [reader[r] EXCEPT !.hit = TRUE, !.at = "serve"])
       \/ Goto(r, "query")
    /\ UNCHANGED <<dbVars, cache, writer, commits>>

\* Error: a hit renews the time to live.
CacheGet_Renews(r) ==
    /\ reader[r].at = "get"
    /\ \/ /\ cache # None /\ cache' = [cache EXCEPT !.left = Life]
          /\ Become(r, [reader[r] EXCEPT !.hit = TRUE,
                 !.at = IF key = "room" /\ Private THEN "check" ELSE "serve"])
       \/ Goto(r, "query") /\ UNCHANGED cache
    /\ UNCHANGED <<dbVars, writer, commits>>

\* cache_get; on a hit get_room looks the membership of a private room up.
CacheGet(r) ==
    /\ reader[r].at = "get"
    /\ \/ /\ cache # None
          /\ Become(r, [reader[r] EXCEPT !.hit = TRUE,
                 !.at = IF key = "room" /\ Private THEN "check" ELSE "serve"])
       \/ Goto(r, "query")
    /\ UNCHANGED <<dbVars, cache, writer, commits>>

\* _get_member, or 403: before the cache (list_members), after a hit, or
\* between the queries (get_room).
Check(r) ==
    /\ reader[r].at = "check"
    /\ IF ~ member THEN Become(r, Away)
       ELSE Goto(r, IF reader[r].hit THEN "serve"
                    ELSE IF key = "members" THEN "get" ELSE "query")
    /\ UNCHANGED <<dbVars, cache, writer, commits>>

\* One query; get_room answers 404 if there is no room.
Query(r) ==
    LET h == reader[r]
        read == Queries[key][h.query]
        facts == [f \in Shown(key) |-> IF f \in read THEN version[f] ELSE h.facts[f]]
        last == h.query = Len(Queries[key])
    IN  /\ h.at = "query"
        /\ Become(r,
              IF key = "room" /\ h.query = 1 /\ ~ exists THEN Away
              ELSE [h EXCEPT !.facts = facts, !.query = IF last THEN 1 ELSE @ + 1,
                     !.at = IF last THEN "set"
                            ELSE IF key = "room" /\ Private THEN "check" ELSE "query"])
        /\ UNCHANGED <<dbVars, cache, writer, commits>>

\* cache_set, or a Redis that does not answer.
CacheSet(r) ==
    /\ reader[r].at = "set"
    /\ cache' \in {cache, Entry(r)}
    /\ Goto(r, "serve")
    /\ UNCHANGED <<dbVars, writer, commits>>

Serve(r) ==
    /\ reader[r].at = "serve"
    /\ Become(r, Away)
    /\ UNCHANGED <<dbVars, cache, writer, commits>>

-----------------------------------------------------------------------------
(* The endpoints that write *)

\* Error: a room is deleted without its memberships.
Commit_KeepsMembers(w, op) ==
    /\ commits < MaxWrites /\ commits' = commits + 1
    /\ op \in OfRoom => exists
    /\ UNCHANGED key
    /\ version' = [f \in Shown(key) |->
          IF f \in Writes[op].changes THEN version[f] + 1 ELSE version[f]]
    /\ exists' = (exists /\ op # "delete")
    /\ member' \in IF op = "joinleave" THEN BOOLEAN ELSE {member}
    /\ reader' = [r \in Readers |->
          IF reader[r].at = "away" THEN Away
          ELSE [reader[r] EXCEPT !.seen = @ \/ member']]

Commit(w, op) ==
    /\ commits < MaxWrites /\ commits' = commits + 1
    /\ op \in OfRoom => exists
    /\ UNCHANGED key
    /\ version' = [f \in Shown(key) |->
          IF f \in Writes[op].changes THEN version[f] + 1 ELSE version[f]]
    /\ exists' = (exists /\ op # "delete")
    /\ member' \in IF op = "delete" THEN {FALSE}
                   ELSE IF op = "joinleave" THEN BOOLEAN ELSE {member}
    /\ reader' = [r \in Readers |->
          IF reader[r].at = "away" THEN Away
          ELSE [reader[r] EXCEPT !.seen = @ \/ member']]

\* The commit of an endpoint, whose checks are of other modules.
WriteCommits(w, op) ==
    /\ writer[w].at = "resting" /\ op # "account"
    /\ Commit(w, op)
    /\ writer' = [writer EXCEPT ![w] = [at |-> "committed", op |-> op]]
    /\ UNCHANGED cache

\* cache_delete, after the commit.
WriteDeletes(w) ==
    /\ writer[w].at = "committed"
    /\ CacheDelete(Writes[writer[w].op].deletes)
    /\ writer' = [writer EXCEPT ![w] = Resting]
    /\ UNCHANGED <<dbVars, commits>>

\* delete_account has the two the other way round.
AccountDeletes(w) ==
    /\ writer[w].at = "resting" /\ "account" \in Ops
    /\ CacheDelete(Writes["account"].deletes)
    /\ writer' = [writer EXCEPT ![w] = [at |-> "deleted", op |-> "account"]]
    /\ UNCHANGED <<dbVars, commits>>

AccountCommits(w) ==
    /\ writer[w].at = "deleted"
    /\ Commit(w, "account")
    /\ writer' = [writer EXCEPT ![w] = Resting]
    /\ UNCHANGED cache

-----------------------------------------------------------------------------
ReaderStep(r) == CacheGet(r) \/ Check(r) \/ Query(r) \/ CacheSet(r) \/ Serve(r)

Next ==
    \/ \E r \in Readers :
          Begin(r) \/ ReaderStep(r)
    \/ \E w \in Writers :
          \/ \E op \in Ops : WriteCommits(w, op)
          \/ WriteDeletes(w) \/ AccountDeletes(w) \/ AccountCommits(w)
    \/ Evict
    \/ Tick

Spec == Init /\ [][Next]_vars

\* Time passes; nothing is asked of the requests.
FairSpec == Spec /\ WF_vars(Tick)

-----------------------------------------------------------------------------
TypeOK ==
    /\ key \in Keys /\ commits \in 0..MaxWrites
    /\ version \in [Shown(key) -> 0..MaxWrites]
    /\ exists \in BOOLEAN /\ member \in BOOLEAN /\ (member => exists)
    /\ cache = None \/ cache \in [facts : [Shown(key) -> 0..MaxWrites],
                                  left : 1..Life, excused : BOOLEAN]
    /\ reader \in [Readers ->
          [at : {"away", "check", "get", "query", "set", "serve"},
           facts : [Shown(key) -> 0..MaxWrites], query : 1..2,
           excused : BOOLEAN, seen : BOOLEAN, hit : BOOLEAN]]
    /\ writer \in [Writers -> [at : {"resting", "committed", "deleted"}, op : Ops \cup {None}]]

\* What the documentation says an entry is invalidated for (README.md:441-446).
\* The profile is left out: its deletion goes before the commit.
Promised ==
    [room |-> {"info", "people"}, members |-> {"people", "admins"},
     catalog |-> {"rooms", "info"}, friends |-> {"friendship"}, user |-> {}]

Pending == \E w \in Writers : writer[w].at = "committed" /\ key \in Writes[writer[w].op].deletes

\* Once the write is through, an entry is as the database unless it was read
\* while the write went on, or Redis failed to delete it (core/cache.py:31-36).
StaleOnlyByOverlap ==
    (cache # None /\ ~ cache.excused /\ ~ Pending) =>
        \A f \in Promised[key] : cache.facts[f] = version[f]

\* What the cache has of a private room, and of the members of any room, goes
\* to callers who were members at some moment of their request
\* (rooms.py:139-144, 258-260).
MembersOnly ==
    \A r \in Readers :
        (/\ reader[r].at = "serve"
         /\ key = "members" \/ (key = "room" /\ Private))
        => reader[r].seen

\* Nothing stays stale, however often it is read: the time to live runs from
\* the fill (core/cache.py:26), and it covers what no write invalidates.
Stale == cache # None /\ \E f \in Shown(key) : cache.facts[f] # version[f]
StaleEntriesGo == Stale ~> ~ Stale
=============================================================================

-------------------------- MODULE CacheAsideProofs --------------------------
(***************************************************************************)
(* Proofs about CacheAside, for any number of requests, any time to live    *)
(* and any choice of keys and endpoints.                                    *)
(***************************************************************************)
EXTENDS CacheAside, TLAPS

AnyKey == {"room", "members", "catalog", "friends", "user"}
AnyOp == {"create", "update", "delete", "joinleave", "roles", "contacts", "account"}

-----------------------------------------------------------------------------
(* The tables of queries and of writes *)

\* One query or two, which together find what the entry shows.
LEMMA QueriesAre ==
    ASSUME NEW k \in AnyKey
    PROVE  /\ Len(Queries[k]) \in {1, 2}
           /\ k = "room" => Len(Queries[k]) = 2
           /\ Len(Queries[k]) = 1 => Shown(k) = Queries[k][1]
           /\ Len(Queries[k]) = 2 => Shown(k) = Queries[k][1] \cup Queries[k][2]
           /\ Promised[k] \subseteq Shown(k)
<1>1. \/ k = "room" /\ Queries[k] = <<{"info"}, {"people", "account"}>>
      \/ k = "members" /\ Queries[k] = <<{"people", "admins", "account"}>>
      \/ k = "catalog" /\ Queries[k] = <<{"rooms", "info"}, {"people", "account"}>>
      \/ k = "friends" /\ Queries[k] = <<{"friendship"}, {"account"}>>
      \/ k = "user" /\ Queries[k] = <<{"account"}>>
  BY DEF AnyKey, Queries
<1>2. \/ Len(Queries[k]) = 1 /\ DOMAIN Queries[k] = {1}
      \/ Len(Queries[k]) = 2 /\ DOMAIN Queries[k] = {1, 2}
  BY <1>1
<1>3. /\ Len(Queries[k]) = 1 => Shown(k) = Queries[k][1]
      /\ Len(Queries[k]) = 2 => Shown(k) = Queries[k][1] \cup Queries[k][2]
  BY <1>2 DEF Shown
<1>4. k = "room" => Len(Queries[k]) = 2
  BY <1>1
<1>5. Promised[k] \subseteq Shown(k)
  BY <1>1, <1>2, <1>3 DEF Promised
<1> QED
  BY <1>2, <1>3, <1>4, <1>5

\* Whatever changes a promised fact deletes the key, after its commit.
LEMMA WritesAre ==
    /\ DOMAIN Writes = AnyOp
    /\ \A op \in AnyOp, k \in AnyKey :
          Writes[op].changes \cap Promised[k] # {} =>
              op # "account" /\ k \in Writes[op].deletes
BY DEF AnyOp, AnyKey, Writes, Write, Promised

-----------------------------------------------------------------------------
(* Types *)

Level == 0..MaxWrites
Places == {"away", "check", "get", "query", "set", "serve"}
Versions(k) == [Shown(k) -> Level]
EntryOf(k) == [facts : Versions(k), left : 1..Life, excused : BOOLEAN]
ReaderOf(k) == [at : Places, facts : Versions(k), query : 1..2,
                excused : BOOLEAN, seen : BOOLEAN, hit : BOOLEAN]
WriterOf == [at : {"resting", "committed", "deleted"}, op : Ops \cup {None}]

\* A version counts commits.
Counted == \A f \in Shown(key) : version[f] <= commits
TypeInv == TypeOK /\ Counted

\* The types, of a key that never changes.
Typed(k) ==
    /\ version \in Versions(k)
    /\ cache = None \/ cache \in EntryOf(k)
    /\ reader \in [Readers -> ReaderOf(k)]
    /\ writer \in [Writers -> WriterOf]
    /\ exists \in BOOLEAN /\ member \in BOOLEAN /\ (member => exists)
    /\ commits \in Level

LEMMA TypedIs == TypeOK <=> key \in Keys /\ Typed(key)
BY DEF TypeOK, Typed, Level, Places, Versions, EntryOf, ReaderOf, WriterOf

\* The types of the next state.
LEMMA TypedNext ==
    ASSUME key \in Keys, key' = key,
           version' \in Versions(key),
           cache' = None \/ cache' \in EntryOf(key),
           reader' \in [Readers -> ReaderOf(key)],
           writer' \in [Writers -> WriterOf],
           exists' \in BOOLEAN, member' \in BOOLEAN, member' => exists',
           commits' \in Level
    PROVE  TypeOK'
<1>1. Shown(key)' = Shown(key)
  BY DEF Shown
<1> QED
  BY <1>1 DEF TypeOK, Level, Places, Versions, EntryOf, ReaderOf, WriterOf

LEMMA AwayIs ==
    ASSUME key \in Keys
    PROVE  /\ Away \in ReaderOf(key) /\ NoFacts(key) \in Versions(key)
           /\ Away.at = "away" /\ Away.query = 1 /\ ~ Away.excused
           /\ ~ Away.seen /\ ~ Away.hit
<1>1. NoFacts(key) \in Versions(key)
  BY BoundsAssumption DEF NoFacts, Versions, Level
<1> QED
  BY <1>1 DEF Away, ReaderOf, Places

\* What a reader may become.
LEMMA ReaderFields ==
    ASSUME NEW k, NEW h \in ReaderOf(k), NEW at \in Places, NEW b \in BOOLEAN
    PROVE  /\ [h EXCEPT !.at = at] \in ReaderOf(k)
           /\ [h EXCEPT !.excused = TRUE] \in ReaderOf(k)
           /\ [h EXCEPT !.seen = b] \in ReaderOf(k)
           /\ [h EXCEPT !.hit = TRUE, !.at = at] \in ReaderOf(k)
           /\ [h EXCEPT !.at = at, !.seen = b] \in ReaderOf(k)
BY DEF ReaderOf

LEMMA BecomeType ==
    ASSUME TypeInv, NEW r \in Readers, NEW h \in ReaderOf(key), Become(r, h)
    PROVE  /\ reader' \in [Readers -> ReaderOf(key)]
           /\ reader'[r] = h
           /\ \A q \in Readers \ {r} : reader'[q] = reader[q]
<1>1. reader \in [Readers -> ReaderOf(key)]
  BY TypedIs DEF TypeInv, Typed
<1> QED
  BY <1>1 DEF Become

\* A reader that only goes to another place.
LEMMA GotoIs ==
    ASSUME TypeInv, NEW r \in Readers, NEW at \in Places, Goto(r, at)
    PROVE  LET h == [reader[r] EXCEPT !.at = at]
           IN  /\ Become(r, h) /\ h \in ReaderOf(key)
               /\ h.at = at /\ h.facts = reader[r].facts /\ h.query = reader[r].query
               /\ h.excused = reader[r].excused /\ h.seen = reader[r].seen
               /\ h.hit = reader[r].hit
<1>1. reader[r] \in ReaderOf(key)
  BY TypedIs DEF TypeInv, Typed
<1>2. Become(r, [reader[r] EXCEPT !.at = at])
  BY DEF Goto
<1> QED
  BY <1>1, <1>2 DEF ReaderOf

-----------------------------------------------------------------------------
(* Readers *)

\* What h has found of the facts in F is what the database holds, unless a
\* write that changes them has still to delete, or has deleted meanwhile.
Fresh(h, F) == Pending \/ h.excused \/ \A f \in F : h.facts[f] = version[f]

ReaderFresh(h) ==
    /\ h.at = "set" => Fresh(h, Promised[key])
    /\ h.query = 2 => Fresh(h, Promised[key] \cap Queries[key][1])

\* Where a reader may be between its queries and after a hit.
Placed(h) ==
    /\ h.query = 2 => h.at \in {"check", "query"} /\ Len(Queries[key]) = 2
    /\ h.hit => h.query = 1 /\ h.at \in {"check", "serve", "away"}

\* A member has been seen, and who has got past the check was one.
SeenOnce(h) ==
    /\ h.at # "away" /\ member => h.seen
    /\ key = "members" => h.at \in {"away", "check"} \/ h.seen
    /\ (/\ key = "room" /\ Private
        /\ h.at \in {"set", "serve"} \/ (h.at = "query" /\ h.query = 2)) => h.seen

Fine(h) == ReaderFresh(h) /\ Placed(h) /\ SeenOnce(h)

\* What a step of a reader makes of it.
Moves(r) == \E h \in ReaderOf(key) : Become(r, h) /\ Fine(h)

LEMMA AwayFine ==
    ASSUME key \in Keys
    PROVE  Fine(Away) /\ Away \in ReaderOf(key)
<1>1. ReaderFresh(Away)
  BY AwayIs DEF ReaderFresh
<1>2. Placed(Away) /\ SeenOnce(Away)
  BY AwayIs DEF Placed, SeenOnce
<1> QED
  BY <1>1, <1>2, AwayIs DEF Fine

LEMMA BeginMoves ==
    ASSUME TypeInv, NEW r \in Readers, Begin(r)
    PROVE  Moves(r)
<1>1. key \in Keys /\ member \in BOOLEAN
  BY TypedIs DEF TypeInv, Typed
<1> DEFINE at == IF key = "members" THEN "check" ELSE "get"
           h == [Away EXCEPT !.at = at, !.seen = member]
<1>2. at \in Places
  BY DEF Places
<1>3. /\ h \in ReaderOf(key) /\ h.at = at /\ h.seen = member
      /\ h.query = 1 /\ h.hit = FALSE
  BY <1>1, <1>2, AwayIs DEF ReaderOf
<1>4. Become(r, h)
  BY DEF Begin
<1> HIDE DEF h
<1>5. ReaderFresh(h)
  BY <1>3 DEF ReaderFresh
<1>6. Placed(h) /\ SeenOnce(h)
  BY <1>3 DEF Placed, SeenOnce
<1> QED
  BY <1>3, <1>4, <1>5, <1>6 DEF Moves, Fine

LEMMA CacheGetMoves ==
    ASSUME TypeInv, NEW r \in Readers, Fine(reader[r]), CacheGet(r)
    PROVE  Moves(r)
<1>1. reader[r] \in ReaderOf(key)
  BY TypedIs DEF TypeInv, Typed
<1>2. /\ reader[r].at = "get" /\ reader[r].query = 1 /\ ~ reader[r].hit
      /\ member => reader[r].seen
      /\ key = "members" => reader[r].seen
  BY <1>1 DEF CacheGet, Fine, Placed, SeenOnce, ReaderOf
<1>3. CASE Goto(r, "query")
  <2> DEFINE h == [reader[r] EXCEPT !.at = "query"]
  <2>1. /\ Become(r, h) /\ h \in ReaderOf(key) /\ h.at = "query" /\ h.query = 1
        /\ ~ h.hit /\ h.seen = reader[r].seen
    BY <1>2, <1>3, GotoIs DEF Places
  <2> HIDE DEF h
  <2> QED
    BY <1>2, <2>1 DEF Moves, Fine, ReaderFresh, Placed, SeenOnce
<1>4. CASE ~ Goto(r, "query")
  <2> DEFINE at == IF key = "room" /\ Private THEN "check" ELSE "serve"
             h == [reader[r] EXCEPT !.hit = TRUE, !.at = at]
  <2>1. Become(r, h)
    BY <1>4 DEF CacheGet
  <2>2. at \in Places
    BY DEF Places
  <2>3. h \in ReaderOf(key)
    BY <1>1, <2>2, ReaderFields
  <2>4. /\ h.at = at /\ h.query = 1
        /\ h.hit /\ h.seen = reader[r].seen
    BY <1>1, <1>2, <2>2 DEF ReaderOf
  <2> HIDE DEF h
  <2> QED
    BY <1>2, <2>1, <2>3, <2>4 DEF Moves, Fine, ReaderFresh, Placed, SeenOnce
<1> QED
  BY <1>3, <1>4

LEMMA CheckMoves ==
    ASSUME TypeInv, NEW r \in Readers, Fine(reader[r]), Check(r)
    PROVE  Moves(r)
<1>1. reader[r] \in ReaderOf(key) /\ key \in Keys /\ reader[r].at = "check"
  BY TypedIs DEF TypeInv, Typed, Check
<1>2. CASE ~ member
  BY <1>1, <1>2, AwayFine DEF Check, Moves
<1>3. CASE member
  <2> DEFINE at == IF reader[r].hit THEN "serve"
                   ELSE IF key = "members" THEN "get" ELSE "query"
             h == [reader[r] EXCEPT !.at = at]
  <2>1. reader[r].seen
    BY <1>1, <1>3 DEF Fine, SeenOnce
  <2>2. Goto(r, at) /\ at \in Places
    BY <1>3 DEF Check, Places
  <2>3. /\ Become(r, h) /\ h \in ReaderOf(key) /\ h.at = at
        /\ h.facts = reader[r].facts /\ h.query = reader[r].query
        /\ h.excused = reader[r].excused /\ h.seen /\ h.hit = reader[r].hit
    BY <2>1, <2>2, GotoIs
  <2>4. key = "members" => reader[r].query = 1
    <3>1. key = "members" => Len(Queries[key]) = 1
      BY DEF Queries
    <3> QED
      BY <3>1, <1>1 DEF Fine, Placed, ReaderOf
  <2> HIDE DEF h
  <2>5. ReaderFresh(h)
    BY <2>3 DEF Fine, ReaderFresh, Fresh
  <2>6. Placed(h) /\ SeenOnce(h)
    BY <1>1, <2>3, <2>4 DEF Fine, Placed, SeenOnce, ReaderOf
  <2> QED
    BY <2>3, <2>5, <2>6 DEF Moves, Fine
<1> QED
  BY <1>2, <1>3
LEMMA QueryMoves ==
    ASSUME TypeInv, NEW r \in Readers, Fine(reader[r]), Query(r)
    PROVE  Moves(r)
<1> DEFINE h == reader[r]
           read == Queries[key][h.query]
           facts == [f \in Shown(key) |-> IF f \in read THEN version[f] ELSE h.facts[f]]
           n == Len(Queries[key])
           last == h.query = n
           at == IF last THEN "set" ELSE IF key = "room" /\ Private THEN "check" ELSE "query"
           query == IF last THEN 1 ELSE h.query + 1
           g == [h EXCEPT !.facts = facts, !.query = query, !.at = at]
<1>1. /\ key \in AnyKey /\ key \in Keys /\ h \in ReaderOf(key) /\ h.at = "query"
      /\ version \in Versions(key)
  BY TypedIs, KeysAssumption DEF TypeInv, Typed, AnyKey, Query
<1>2. /\ n \in {1, 2} /\ h.query \in {1, 2}
      /\ h.query = 2 => n = 2
      /\ ~ h.hit
  BY <1>1, QueriesAre DEF Fine, Placed, ReaderOf
<1>3. CASE Become(r, Away)
  BY <1>1, <1>3, AwayFine DEF Moves
<1>4. CASE Become(r, g)
  <2>1. facts \in Versions(key) /\ at \in Places /\ query \in 1..2
    <3>1. facts \in Versions(key)
      BY <1>1 DEF Versions, ReaderOf
    <3> HIDE DEF n
    <3> QED
      BY <1>2, <3>1 DEF Places
  <2>2. /\ g \in ReaderOf(key) /\ g.facts = facts /\ g.at = at /\ g.query = query
        /\ g.excused = h.excused /\ g.seen = h.seen /\ g.hit = h.hit
    BY <1>1, <2>1 DEF ReaderOf
  <2>3. \A f \in Shown(key) : f \in read => facts[f] = version[f]
    OBVIOUS
  <2>4. \A f \in Shown(key) : f \notin read => facts[f] = h.facts[f]
    OBVIOUS
  <2>5. CASE last
    <3>1. query = 1 /\ at = "set"
      BY <2>5
    <3>2. Fresh(g, Promised[key])
      <4>1. CASE Len(Queries[key]) = 1
        <5>1. Promised[key] \subseteq read /\ Promised[key] \subseteq Shown(key)
          BY <1>1, <2>5, <4>1, QueriesAre
        <5> QED
          BY <2>2, <2>3, <5>1 DEF Fresh
      <4>2. CASE Len(Queries[key]) = 2
        <5>1. /\ Promised[key] \subseteq Shown(key)
              /\ \A f \in Promised[key] : f \notin read => f \in Queries[key][1]
          BY <1>1, <2>5, <4>2, QueriesAre
        <5>2. Fresh(h, Promised[key] \cap Queries[key][1])
          BY <2>5, <4>2 DEF Fine, ReaderFresh
        <5> QED
          BY <2>2, <2>3, <2>4, <5>1, <5>2 DEF Fresh
      <4> QED
        BY <1>2, <4>1, <4>2
    <3>3. key = "room" => h.query = 2
      BY <1>1, <2>5, QueriesAre
    <3>4. SeenOnce(g)
      BY <1>1, <2>2, <3>1, <3>3 DEF Fine, SeenOnce
    <3> HIDE DEF g, facts, at, query
    <3>5. ReaderFresh(g) /\ Placed(g)
      BY <1>2, <2>2, <3>1, <3>2 DEF ReaderFresh, Placed
    <3> QED
      BY <1>4, <2>2, <3>4, <3>5 DEF Moves, Fine
  <2>6. CASE ~ last
    <3>1. h.query = 1 /\ query = 2 /\ at \in {"check", "query"} /\ n = 2
      <4> HIDE DEF n
      <4> QED
        BY <1>2, <2>6
    <3>2. Fresh(g, Promised[key] \cap Queries[key][1])
      <4>1. Promised[key] \subseteq Shown(key) /\ read = Queries[key][1]
        BY <1>1, <3>1, QueriesAre
      <4> QED
        BY <2>2, <2>3, <4>1 DEF Fresh
    <3>3. key = "room" /\ Private => at = "check"
      BY <2>6
    <3> HIDE DEF g, facts, at, query
    <3>4. ReaderFresh(g) /\ Placed(g)
      BY <1>2, <2>2, <3>1, <3>2 DEF ReaderFresh, Placed
    <3>5. SeenOnce(g)
      BY <1>1, <2>2, <3>1, <3>3 DEF Fine, SeenOnce
    <3> QED
      BY <1>4, <2>2, <3>4, <3>5 DEF Moves, Fine
  <2> QED
    BY <2>5, <2>6
<1> QED
  BY <1>3, <1>4 DEF Query

\* What a step of a reader makes of the cache.
Fills == cache' = cache \/ (cache' \in EntryOf(key) /\ Fresh(cache', Promised[key]))

LEMMA CacheSetMoves ==
    ASSUME TypeInv, NEW r \in Readers, Fine(reader[r]), CacheSet(r)
    PROVE  Moves(r) /\ Fills
<1>1. /\ reader[r] \in ReaderOf(key) /\ reader[r].at = "set"
      /\ Goto(r, "serve") /\ "serve" \in Places
  BY TypedIs DEF TypeInv, Typed, CacheSet, Places
<1> DEFINE h == [reader[r] EXCEPT !.at = "serve"]
<1>2. /\ Become(r, h) /\ h \in ReaderOf(key) /\ h.at = "serve"
      /\ h.query = reader[r].query /\ h.seen = reader[r].seen /\ h.hit = reader[r].hit
  BY <1>1, GotoIs
<1> HIDE DEF h
<1>3. Fine(h)
  BY <1>1, <1>2 DEF Fine, ReaderFresh, Placed, SeenOnce
<1>4. Entry(r) \in EntryOf(key) /\ Fresh(Entry(r), Promised[key])
  BY <1>1, BoundsAssumption DEF Entry, EntryOf, ReaderOf, Fresh, Fine, ReaderFresh
<1> QED
  BY <1>2, <1>3, <1>4 DEF Moves, Fills, CacheSet

LEMMA ServeMoves ==
    ASSUME TypeInv, NEW r \in Readers, Serve(r)
    PROVE  Moves(r)
BY AwayFine, TypedIs DEF TypeInv, Typed, Serve, Moves

-----------------------------------------------------------------------------
(* The invariant *)

CacheFresh == cache # None => Fresh(cache, Promised[key])
ReadersFine == \A r \in Readers : Fine(reader[r])
IInv == TypeInv /\ CacheFresh /\ ReadersFine

LEMMA InitInv == Init => IInv
<1> SUFFICES ASSUME Init
             PROVE  IInv
  OBVIOUS
<1>1. key \in Keys /\ NoFacts(key) \in Versions(key) /\ 0 \in Level
  BY AwayIs, BoundsAssumption DEF Init, Level
<1>2. Fine(Away) /\ Away \in ReaderOf(key)
  BY <1>1, AwayFine
<1>3. reader = [r \in Readers |-> Away]
  BY DEF Init
<1>4. TypeOK
  <2>1. Resting \in WriterOf
    BY DEF Resting, WriterOf
  <2>2. writer \in [Writers -> WriterOf]
    BY <2>1 DEF Init
  <2>3. reader \in [Readers -> ReaderOf(key)]
    BY <1>2, <1>3
  <2> QED
    BY <1>1, <2>2, <2>3, TypedIs DEF Init, Typed
<1>5. Counted
  BY DEF Init, Counted, NoFacts
<1>6. CacheFresh /\ ReadersFine
  BY <1>2, <1>3 DEF Init, CacheFresh, ReadersFine
<1> QED
  BY <1>4, <1>5, <1>6 DEF IInv, TypeInv

\* A step of a reader, which touches neither the database nor a writer.
LEMMA ReadersKeep ==
    ASSUME IInv, NEW r \in Readers, Moves(r), UNCHANGED <<dbVars, writer, commits>>,
           Fills
    PROVE  IInv'
<1>1. PICK h \in ReaderOf(key) : Become(r, h) /\ Fine(h)
  BY DEF Moves
<1>2. /\ reader' \in [Readers -> ReaderOf(key)] /\ reader'[r] = h
      /\ \A q \in Readers \ {r} : reader'[q] = reader[q]
  BY <1>1, BecomeType DEF IInv
<1>3. \A q \in Readers : Fine(reader'[q])
  BY <1>1, <1>2 DEF IInv, ReadersFine
<1>4. /\ key' = key /\ version' = version /\ member' = member
      /\ exists' = exists /\ writer' = writer /\ commits' = commits
  BY DEF dbVars
<1>5. ReadersFine'
  BY <1>3, <1>4 DEF ReadersFine, Fine, ReaderFresh, Fresh, Pending, Placed, SeenOnce
<1>6. CacheFresh'
  <2>1. cache' = None \/ Fresh(cache', Promised[key])
    BY DEF IInv, CacheFresh, Fills
  <2> QED
    BY <1>4, <2>1 DEF CacheFresh, Fresh, Pending
<1>7. cache' = None \/ cache' \in EntryOf(key)
  BY TypedIs DEF IInv, TypeInv, Typed, Fills
<1>8. TypeInv'
  <2>1. key \in Keys /\ Typed(key)
    BY TypedIs DEF IInv, TypeInv
  <2>2. TypeOK'
    BY <1>2, <1>4, <1>7, <2>1, TypedNext DEF Typed
  <2>3. Counted'
    BY <1>4 DEF IInv, TypeInv, Counted, Shown
  <2> QED
    BY <2>2, <2>3 DEF TypeInv
<1> QED
  BY <1>5, <1>6, <1>8 DEF IInv
\* Time and eviction only take the entry, or its life.
LEMMA EntryGoes ==
    ASSUME IInv, Tick \/ Evict
    PROVE  IInv'
<1>1. /\ key' = key /\ version' = version /\ member' = member /\ reader' = reader
      /\ exists' = exists /\ writer' = writer /\ commits' = commits /\ cache # None
  BY DEF Tick, Evict, dbVars
<1>2. key \in Keys /\ Typed(key) /\ cache \in EntryOf(key) /\ Fresh(cache, Promised[key])
  BY <1>1, TypedIs DEF IInv, TypeInv, Typed, CacheFresh
<1>3. cache' = None \/ (cache' \in EntryOf(key) /\ Fresh(cache', Promised[key]))
  <2>1. CASE cache' = None
    BY <2>1
  <2>2. CASE cache.left # 1 /\ cache' = [cache EXCEPT !.left = cache.left - 1]
    <3>1. cache.left \in 1..Life /\ cache.left - 1 \in 1..Life
      BY <1>2, <2>2, BoundsAssumption DEF EntryOf
    <3>2. /\ cache' \in EntryOf(key) /\ cache'.facts = cache.facts
          /\ cache'.excused = cache.excused
      BY <1>2, <2>2, <3>1 DEF EntryOf
    <3> QED
      BY <1>2, <3>2 DEF Fresh
  <2> QED
    BY <2>1, <2>2 DEF Tick, Evict
<1>4. TypeInv'
  <2>1. TypeOK'
    BY <1>1, <1>2, <1>3, TypedNext DEF Typed
  <2>2. Counted'
    BY <1>1 DEF IInv, TypeInv, Counted, Shown
  <2> QED
    BY <2>1, <2>2 DEF TypeInv
<1>5. CacheFresh'
  BY <1>1, <1>3 DEF CacheFresh, Fresh, Pending
<1>6. ReadersFine'
  BY <1>1 DEF IInv, ReadersFine, Fine, ReaderFresh, Fresh, Pending, Placed, SeenOnce
<1> QED
  BY <1>4, <1>5, <1>6 DEF IInv

-----------------------------------------------------------------------------
(* Writers *)

WriterMoves(w, record) == writer' = [writer EXCEPT ![w] = record]

\* The types of a commit: no version passes the number of commits, and who is
\* a member has a room.
LEMMA CommitTypes ==
    ASSUME IInv, NEW w \in Writers, NEW op \in AnyOp, Commit(w, op), cache' = cache,
           NEW record \in WriterOf, WriterMoves(w, record)
    PROVE  TypeInv'
<1>1. key' = key /\ commits' = commits + 1 /\ commits < MaxWrites
  BY DEF Commit
<1>2. key \in Keys /\ Typed(key)
  BY TypedIs DEF IInv, TypeInv
<1>3. commits \in Nat /\ commits' \in Level
  BY <1>1, <1>2, BoundsAssumption DEF Typed, Level
<1>4. \A f \in Shown(key) : version[f] \in Level /\ version[f] <= commits
  BY <1>2 DEF IInv, TypeInv, Counted, Typed, Versions
<1>5. /\ version' \in Versions(key)
      /\ \A f \in Shown(key) : version'[f] <= commits'
  <2>1. version' = [f \in Shown(key) |->
           IF f \in Writes[op].changes THEN version[f] + 1 ELSE version[f]]
    BY DEF Commit
  <2>2. \A f \in Shown(key) : version[f] \in Nat /\ version[f] + 1 \in Level
                              /\ version[f] + 1 <= commits' /\ version[f] <= commits'
    BY <1>1, <1>3, <1>4, BoundsAssumption DEF Level
  <2> QED
    BY <1>4, <2>1, <2>2 DEF Versions
<1>6. exists' \in BOOLEAN /\ member' \in BOOLEAN /\ (member' => exists')
  BY <1>2 DEF Typed, Commit, OfRoom
<1>7. reader' \in [Readers -> ReaderOf(key)]
  <2>1. Away \in ReaderOf(key) /\ reader \in [Readers -> ReaderOf(key)]
    BY <1>2, AwayIs DEF Typed
  <2>2. \A r \in Readers : [reader[r] EXCEPT !.seen = @ \/ member'] \in ReaderOf(key)
    BY <1>6, <2>1 DEF ReaderOf
  <2> QED
    BY <2>1, <2>2 DEF Commit
<1>8. writer' \in [Writers -> WriterOf]
  BY <1>2 DEF Typed, WriterMoves
<1>9. TypeOK'
  BY <1>1, <1>2, <1>3, <1>5, <1>6, <1>7, <1>8, TypedNext DEF Typed
<1>10. Counted'
  BY <1>1, <1>5 DEF Counted, Shown
<1> QED
  BY <1>9, <1>10 DEF TypeInv

\* What a commit leaves of a reader.
LEMMA CommitReaders ==
    ASSUME IInv, NEW w, NEW op, Commit(w, op), NEW r \in Readers
    PROVE  \/ reader'[r] = Away
           \/ /\ reader'[r].at = reader[r].at /\ reader'[r].facts = reader[r].facts
              /\ reader'[r].query = reader[r].query
              /\ reader'[r].excused = reader[r].excused
              /\ reader'[r].hit = reader[r].hit
              /\ reader'[r].seen = (reader[r].seen \/ member')
<1>1. reader[r] \in ReaderOf(key)
  BY TypedIs DEF IInv, TypeInv, Typed
<1> QED
  BY <1>1 DEF Commit, ReaderOf

\* A commit either changes nothing that was promised, or has to delete.
LEMMA CommitKeeps ==
    ASSUME IInv, NEW w \in Writers, NEW op \in AnyOp, Commit(w, op), cache' = cache,
           Pending => Pending',
           Writes[op].changes \cap Promised[key] # {} => Pending'
    PROVE  CacheFresh' /\ ReadersFine'
<1>1. key' = key /\ key \in Keys /\ key \in AnyKey
  BY TypedIs, KeysAssumption DEF IInv, TypeInv, Commit, AnyKey
<1>2. Pending' \/ \A f \in Promised[key] : version'[f] = version[f]
  BY <1>1, QueriesAre DEF Commit
<1>3. CacheFresh'
  BY <1>1, <1>2 DEF IInv, CacheFresh, Fresh
<1>4. ASSUME NEW r \in Readers
      PROVE  Fine(reader[r])'
  <2>1. Fine(reader[r]) /\ reader[r] \in ReaderOf(key) /\ member \in BOOLEAN
    BY TypedIs DEF IInv, ReadersFine, TypeInv, Typed
  <2>2. CASE reader'[r] = Away
    BY <1>1, <2>2, AwayIs DEF Fine, ReaderFresh, Placed, SeenOnce
  <2>3. CASE reader'[r] # Away
    <3>1. /\ reader'[r].at = reader[r].at /\ reader'[r].facts = reader[r].facts
          /\ reader'[r].query = reader[r].query
          /\ reader'[r].excused = reader[r].excused
          /\ reader'[r].hit = reader[r].hit
          /\ reader'[r].seen = (reader[r].seen \/ member')
      BY <2>3, CommitReaders
    <3>2. ReaderFresh(reader[r])'
      BY <1>1, <1>2, <2>1, <3>1 DEF Fine, ReaderFresh, Fresh
    <3>3. Placed(reader[r])'
      BY <1>1, <2>1, <3>1 DEF Fine, Placed
    <3>4. SeenOnce(reader[r])'
      BY <1>1, <2>1, <3>1 DEF Fine, SeenOnce
    <3> QED
      BY <3>2, <3>3, <3>4 DEF Fine
  <2> QED
    BY <2>2, <2>3
<1> QED
  BY <1>3, <1>4 DEF ReadersFine

\* A writer that has nothing to delete before its step leaves what is pending.
LEMMA PendingKept ==
    ASSUME writer \in [Writers -> WriterOf], key' = key,
           NEW w \in Writers, writer[w].at # "committed",
           NEW record \in WriterOf, WriterMoves(w, record)
    PROVE  /\ Pending => Pending'
           /\ record.at = "committed" /\ key \in Writes[record.op].deletes => Pending'
<1>1. /\ writer'[w] = record
      /\ \A v \in Writers \ {w} : writer'[v] = writer[v]
  BY DEF WriterMoves
<1> QED
  BY <1>1 DEF Pending

LEMMA WriteCommitsKeeps ==
    ASSUME IInv, NEW w \in Writers, NEW op \in Ops, WriteCommits(w, op)
    PROVE  IInv'
<1> DEFINE record == [at |-> "committed", op |-> op]
<1>1. /\ Commit(w, op) /\ writer[w].at = "resting" /\ cache' = cache
      /\ WriterMoves(w, record) /\ record \in WriterOf
  BY DEF WriteCommits, WriterMoves, WriterOf
<1>2. key' = key /\ key \in AnyKey /\ op \in AnyOp /\ writer \in [Writers -> WriterOf]
  BY <1>1, TypedIs, KeysAssumption, OpsAssumption, WritesAre
  DEF IInv, TypeInv, Typed, Commit, AnyKey
<1>3. TypeInv'
  BY <1>1, <1>2, CommitTypes
<1>4. /\ Pending => Pending'
      /\ key \in Writes[op].deletes => Pending'
  BY <1>1, <1>2, PendingKept
<1>5. CacheFresh' /\ ReadersFine'
  BY <1>1, <1>2, <1>4, WritesAre, CommitKeeps
<1> QED
  BY <1>3, <1>5 DEF IInv

\* The account is no fact that an entry is promised to be current of.
LEMMA AccountCommitsKeeps ==
    ASSUME IInv, NEW w \in Writers, AccountCommits(w)
    PROVE  IInv'
<1>1. /\ Commit(w, "account") /\ writer[w].at = "deleted" /\ cache' = cache
      /\ WriterMoves(w, Resting) /\ Resting \in WriterOf
  BY DEF AccountCommits, WriterMoves, WriterOf, Resting
<1>2. key' = key /\ key \in AnyKey /\ writer \in [Writers -> WriterOf]
  BY <1>1, TypedIs, KeysAssumption DEF IInv, TypeInv, Typed, Commit, AnyKey
<1>3. "account" \in AnyOp /\ Writes["account"].changes \cap Promised[key] = {}
  BY <1>2, WritesAre DEF AnyOp
<1>4. TypeInv'
  BY <1>1, <1>3, CommitTypes
<1>5. Pending => Pending'
  BY <1>1, <1>2, PendingKept
<1>6. CacheFresh' /\ ReadersFine'
  BY <1>1, <1>3, <1>5, CommitKeeps
<1> QED
  BY <1>4, <1>6 DEF IInv

\* A deletion excuses whoever has looked the key up before it, and the entry
\* that it fails to delete.
LEMMA DeleteKeeps ==
    ASSUME IInv, NEW K, CacheDelete(K), UNCHANGED <<dbVars, commits>>,
           NEW w \in Writers, NEW record \in WriterOf, WriterMoves(w, record),
           key \in K \/ (Pending => Pending')
    PROVE  IInv'
<1>1. /\ key' = key /\ version' = version /\ member' = member
      /\ exists' = exists /\ commits' = commits
  BY DEF dbVars
<1>2. key \in Keys /\ Typed(key)
  BY TypedIs DEF IInv, TypeInv
<1>3. writer' \in [Writers -> WriterOf]
  BY <1>2 DEF Typed, WriterMoves
<1>4. Counted'
  BY <1>1 DEF IInv, TypeInv, Counted, Shown
<1>5. CASE key \notin K
  <2>1. cache' = cache /\ reader' = reader /\ (Pending => Pending')
    BY <1>5 DEF CacheDelete
  <2>2. TypeOK'
    BY <1>1, <1>2, <1>3, <2>1, TypedNext DEF Typed
  <2>3. CacheFresh' /\ ReadersFine'
    BY <1>1, <2>1 DEF IInv, CacheFresh, ReadersFine, Fine, ReaderFresh, Fresh,
       Placed, SeenOnce
  <2> QED
    BY <1>4, <2>2, <2>3 DEF IInv, TypeInv
<1>6. CASE key \in K
  <2>1. cache' = None \/ (cache' \in EntryOf(key) /\ cache'.excused)
    <3>1. cache # None => [cache EXCEPT !.excused = TRUE] \in EntryOf(key)
      BY <1>2 DEF Typed, EntryOf
    <3>2. cache # None => [cache EXCEPT !.excused = TRUE].excused
      BY <1>2 DEF Typed, EntryOf
    <3> QED
      BY <1>6, <3>1, <3>2 DEF CacheDelete
  <2>2. ASSUME NEW r \in Readers
        PROVE  /\ reader'[r] \in ReaderOf(key)
               /\ reader'[r].at = reader[r].at /\ reader'[r].query = reader[r].query
               /\ reader'[r].seen = reader[r].seen /\ reader'[r].hit = reader[r].hit
               /\ Midway(r) => reader'[r].excused
    <3>1. reader[r] \in ReaderOf(key)
      BY <1>2 DEF Typed
    <3>2. reader'[r] = IF Midway(r) THEN [reader[r] EXCEPT !.excused = TRUE] ELSE reader[r]
      BY <1>6 DEF CacheDelete
    <3> QED
      BY <3>1, <3>2 DEF ReaderOf
  <2>3. reader' \in [Readers -> ReaderOf(key)]
    <3>1. \E f \in {reader'} : f = [r \in Readers |-> f[r]]
      BY <1>6 DEF CacheDelete
    <3> QED
      BY <2>2, <3>1
  <2>4. TypeOK'
    BY <1>1, <1>2, <1>3, <2>1, <2>3, TypedNext DEF Typed
  <2>5. CacheFresh'
    BY <2>1 DEF CacheFresh, Fresh
  <2>6. ASSUME NEW r \in Readers
        PROVE  Fine(reader[r])'
    <3>1. Fine(reader[r])
      BY DEF IInv, ReadersFine
    <3>2. ReaderFresh(reader[r])'
      BY <2>2 DEF Midway, ReaderFresh, Fresh
    <3>3. Placed(reader[r])' /\ SeenOnce(reader[r])'
      BY <1>1, <2>2, <3>1 DEF Fine, Placed, SeenOnce
    <3> QED
      BY <3>2, <3>3 DEF Fine
  <2> QED
    BY <1>4, <2>4, <2>5, <2>6 DEF IInv, TypeInv, ReadersFine
<1> QED
  BY <1>5, <1>6

LEMMA WriteDeletesKeeps ==
    ASSUME IInv, NEW w \in Writers, WriteDeletes(w)
    PROVE  IInv'
<1> DEFINE K == Writes[writer[w].op].deletes
<1>1. /\ CacheDelete(K) /\ UNCHANGED <<dbVars, commits>>
      /\ WriterMoves(w, Resting) /\ Resting \in WriterOf
  BY DEF WriteDeletes, WriterMoves, WriterOf, Resting
<1>2. key' = key /\ \A v \in Writers \ {w} : writer'[v] = writer[v]
  BY <1>1, TypedIs DEF IInv, TypeInv, Typed, WriterMoves, dbVars
<1>3. key \in K \/ (Pending => Pending')
  BY <1>2 DEF Pending
<1> QED
  BY <1>1, <1>3, DeleteKeeps

LEMMA AccountDeletesKeeps ==
    ASSUME IInv, NEW w \in Writers, AccountDeletes(w)
    PROVE  IInv'
<1> DEFINE K == Writes["account"].deletes
           record == [at |-> "deleted", op |-> "account"]
<1>1. /\ CacheDelete(K) /\ UNCHANGED <<dbVars, commits>> /\ writer[w].at = "resting"
      /\ WriterMoves(w, record) /\ record \in WriterOf
  BY DEF AccountDeletes, WriterMoves, WriterOf
<1>2. key' = key /\ writer \in [Writers -> WriterOf]
  BY <1>1, TypedIs DEF IInv, TypeInv, Typed, dbVars
<1>3. Pending => Pending'
  BY <1>1, <1>2, PendingKept
<1> HIDE DEF K, record
<1> QED
  BY <1>1, <1>3, DeleteKeeps

-----------------------------------------------------------------------------
(* The theorems *)

LEMMA NextInv == IInv /\ [Next]_vars => IInv'
<1> SUFFICES ASSUME IInv, [Next]_vars
             PROVE  IInv'
  OBVIOUS
<1>1. TypeInv /\ ReadersFine
  BY DEF IInv
<1>2. CASE UNCHANGED vars
  <2>1. /\ key' = key /\ version' = version /\ member' = member /\ exists' = exists
        /\ cache' = cache /\ reader' = reader /\ writer' = writer /\ commits' = commits
    BY <1>2 DEF vars, dbVars
  <2>2. TypeInv'
    <3>1. key \in Keys /\ Typed(key)
      BY <1>1, TypedIs DEF TypeInv
    <3>2. TypeOK'
      BY <2>1, <3>1, TypedNext DEF Typed
    <3> QED
      BY <1>1, <2>1, <3>2 DEF TypeInv, Counted, Shown
  <2>3. CacheFresh'
    BY <2>1 DEF IInv, CacheFresh, Fresh, Pending
  <2>4. ReadersFine'
    BY <1>1, <2>1 DEF ReadersFine, Fine, ReaderFresh, Fresh, Pending, Placed, SeenOnce
  <2> QED
    BY <2>2, <2>3, <2>4 DEF IInv
<1>3. ASSUME NEW r \in Readers, Begin(r) \/ ReaderStep(r)
      PROVE  IInv'
  <2>1. Fine(reader[r])
    BY <1>1 DEF ReadersFine
  <2>2. CASE Begin(r)
    BY <1>1, <2>2, BeginMoves, ReadersKeep DEF Begin, Fills
  <2>3. CASE CacheGet(r)
    BY <1>1, <2>1, <2>3, CacheGetMoves, ReadersKeep DEF CacheGet, Fills
  <2>4. CASE Check(r)
    BY <1>1, <2>1, <2>4, CheckMoves, ReadersKeep DEF Check, Fills
  <2>5. CASE Query(r)
    <3>1. UNCHANGED <<dbVars, cache, writer, commits>>
      BY <2>5 DEF Query
    <3> QED
      BY <1>1, <2>1, <2>5, <3>1, QueryMoves, ReadersKeep DEF Fills
  <2>6. CASE CacheSet(r)
    BY <1>1, <2>1, <2>6, CacheSetMoves, ReadersKeep DEF CacheSet
  <2>7. CASE Serve(r)
    BY <1>1, <2>7, ServeMoves, ReadersKeep DEF Serve, Fills
  <2> QED
    BY <1>3, <2>2, <2>3, <2>4, <2>5, <2>6, <2>7 DEF ReaderStep
<1>4. ASSUME NEW w \in Writers,
             \/ \E op \in Ops : WriteCommits(w, op)
             \/ WriteDeletes(w) \/ AccountDeletes(w) \/ AccountCommits(w)
      PROVE  IInv'
  BY <1>4, WriteCommitsKeeps, WriteDeletesKeeps, AccountDeletesKeeps, AccountCommitsKeeps
<1>5. CASE Tick \/ Evict
  BY <1>5, EntryGoes
<1> QED
  BY <1>2, <1>3, <1>4, <1>5 DEF Next

LEMMA Invariance == Spec => []IInv
BY InitInv, NextInv, PTL DEF Spec

\* The entry, its readers and its writers keep their types for every key: an
\* entry shows the facts of its queries and no others, at versions that were
\* committed, and nobody is a member of a room that is gone.
THEOREM CacheTypeCorrect == Spec => []TypeOK
<1>1. IInv => TypeOK
  BY DEF IInv, TypeInv
<1> QED
  BY <1>1, Invariance, PTL

\* Whatever the requests and the key: an entry differs from the database in
\* what is promised of it only while the write that changed it has still to
\* delete, or if it was read while a write went on, or if Redis failed
\* (core/cache.py:31-36).
THEOREM StaleByOverlapOnly == Spec => []StaleOnlyByOverlap
<1>1. IInv => StaleOnlyByOverlap
  BY DEF IInv, CacheFresh, Fresh, StaleOnlyByOverlap
<1> QED
  BY <1>1, Invariance, PTL

\* The cache opens no room: who is served a private room, or the members of
\* any, was a member at a moment of the request (rooms.py:139-144, 258-260).
THEOREM MembersOnlySee == Spec => []MembersOnly
<1>1. IInv => MembersOnly
  BY DEF IInv, ReadersFine, Fine, SeenOnce, MembersOnly
<1> QED
  BY <1>1, Invariance, PTL
=============================================================================
